---- MODULE Spec2Model ----
(***************************************************************************)
(* HomeLabInABox: the dependency planner (HomeLabInABox.py) and the        *)
(* classifier of the automation engine's output (AnsibleWrapper.py).       *)
(*                                                                         *)
(* Spec       : one deploy_homelab call (planning, role linking, runs)      *)
(* SpecRun    : one AnsibleWrapper.run call on one engine output            *)
(* SpecConfig : build_configuration_file and validate_configuration_file    *)
(*              calls on configuration.yaml, with the user's edits between  *)
(* SpecInventory : one get_module_inventory call on one rendered playbook   *)
(* SpecMain   : one call of main, the guided flow                           *)
(***************************************************************************)
EXTENDS Integers, Sequences, FiniteSets, TLC

VARIABLES
    all_modules,            \* HomeLabInABox.all_modules: name -> dependency declaration
    module_choices,         \* module_choices.yaml: the wanted_modules list
    desired_module_names,   \* HomeLabInABox.desired_module_names
    desired_modules,        \* HomeLabInABox.desired_modules (a spec is named by its module)
    dependency_graph,       \* HomeLabInABox.dependency_graph (nx.DiGraph)
    deployment_order,       \* the list deploy_homelab got from get_deployment_order
    order_calls,            \* number of get_deployment_order calls made
    roles,                  \* the main roles directory: the links made, in order
    link_idx,               \* position of deploy_homelab's role-linking loop
    invoked,                \* modules whose engine run was started, in order
    returned,               \* modules whose AnsibleWrapper.run returned, in order
    error,                  \* the exception that ended the call (NoError: none)
    pc,                     \* position inside deploy_homelab
    stdout,                 \* AnsibleWrapper.run: the engine's output lines
    rc,                     \* AnsibleWrapper.run: runner.rc
    cleaned_stdout,         \* construct_json_data: clean_stdout's result
    printed,                \* what the wrapper printed (warning reports), in order
    examined,               \* line positions read so far, one entry per read
    event_data,             \* AnsibleWrapper.event_data (the run report)
    raised,                 \* the exception AnsibleWrapper.run ended with
    self_module_name,       \* AnsibleWrapper.module_name
    rpc,                    \* position inside AnsibleWrapper.run
    configuration_yaml,     \* the file configuration.yaml (NoFile: there is none)
    configuration,          \* HomeLabInABox.configuration
    configuration_variables, \* HomeLabInABox.configuration_variables
    calls,                  \* build/validate calls made so far
    edits,                  \* edits the user made to configuration.yaml so far
    last,                   \* the last build/validate call: what it was given, how it ended
    playbook,               \* the rendered playbook of the module being run
    inventory,              \* the inventory chosen for the module being run
    main_log                \* main: the calls it made and what they returned, in order

planVars == <<all_modules, module_choices, desired_module_names, desired_modules,
              dependency_graph, deployment_order, order_calls, roles, link_idx,
              invoked, returned, error, pc>>
runVars == <<stdout, rc, cleaned_stdout, printed, examined, event_data, raised,
             self_module_name, rpc>>
configVars == <<configuration_yaml, configuration, configuration_variables, calls,
                edits, last>>
flowVars == <<playbook, inventory, main_log>>
vars == <<planVars, runVars, configVars, flowVars>>

----------------------------------------------------------------------------
(* Bounds of the model *)

\* longest dependency declaration of a module spec
MaxDeps == 2
\* longest wanted_modules list
MaxWanted == 2

----------------------------------------------------------------------------
(* Values *)

\* the module catalog (directory names under Modules/)
Names == {"A", "B", "C"}
\* Python's None, and YAML's string "None"
PyNone == "<None>"
NoneString == "None"
\* a deployment order that was never computed
NotComputed == <<"<not computed>">>
NoError == [kind |-> "none"]
\* None where a message string was expected
NoneMessage == [none |-> PyNone]

SeqsUpTo(S, n) == UNION {[1..k -> S] : k \in 0..n}
IsDistinct(s) == \A i, j \in 1..Len(s) : i # j => s[i] # s[j]
InSeq(x, s) == \E i \in 1..Len(s) : s[i] = x
Range(s) == {s[i] : i \in 1..Len(s)}
IndexOf(x, s) == CHOOSE i \in 1..Len(s) : s[i] = x /\ \A j \in 1..(i - 1) : s[j] # x

\* the dependency declarations a spec.yaml can hold: an empty list, the
\* sentinel (None or "None" as first entry), or a list of module names
DependencyDecls ==
    {<<>>, <<PyNone>>, <<NoneString>>}
        \cup {s \in SeqsUpTo(Names, MaxDeps) : Len(s) >= 1 /\ IsDistinct(s)}

----------------------------------------------------------------------------
(* networkx.DiGraph: nodes and edges in insertion order *)

EmptyGraph == [nodes |-> <<>>, edges |-> <<>>]

add_node(G, n) ==
    IF InSeq(n, G.nodes) THEN G ELSE [G EXCEPT !.nodes = Append(@, n)]

add_edge(G, u, v) ==
    LET G1 == add_node(add_node(G, u), v)
    IN  IF InSeq(<<u, v>>, G1.edges) THEN G1
        ELSE [G1 EXCEPT !.edges = Append(@, <<u, v>>)]

HasEdge(G, u, v) == InSeq(<<u, v>>, G.edges)

\* the node sequences that run along edges and close back on their first node
CyclicSeqs(G) ==
    {s \in SeqsUpTo(Range(G.nodes), Len(G.nodes)) :
        /\ Len(s) >= 1
        /\ IsDistinct(s)
        /\ \A i \in 1..(Len(s) - 1) : HasEdge(G, s[i], s[i + 1])
        /\ HasEdge(G, s[Len(s)], s[1])}

Rotations(s) ==
    {[i \in 1..Len(s) |-> s[((i + k - 1) % Len(s)) + 1]] : k \in 0..(Len(s) - 1)}

\* one simple cycle = the set of its rotations
SimpleCycleClasses(G) == {Rotations(s) : s \in CyclicSeqs(G)}

is_directed_acyclic_graph(G) == CyclicSeqs(G) = {}

\* faulty variant: one cycle only, as nx.find_cycle would give
OneCycleOnly(G) ==
    {{c} : c \in UNION SimpleCycleClasses(G)}

\* nx.simple_cycles: every simple cycle once, as the list of its nodes; the
\* node a cycle starts at comes from iterating a set of strings, so each
\* rotation is a possible result
simple_cycles(G) ==
    LET classes == SimpleCycleClasses(G)
    IN  {{f[c] : c \in classes} :
            f \in {g \in [classes -> UNION classes] : \A c \in classes : g[c] \in c}}

Successors(G, n) ==
    LET es == SelectSeq(G.edges, LAMBDA e : e[1] = n)
    IN  [i \in 1..Len(es) |-> es[i][2]]

InDegree(G, n) == Cardinality({i \in 1..Len(G.edges) : G.edges[i][2] = n})

RECURSIVE Concat(_)
Concat(ss) == IF ss = <<>> THEN <<>> ELSE Head(ss) \o Concat(Tail(ss))

\* one generation of nx.topological_generations: every child visited loses
\* one from its in-degree and joins the next generation on reaching zero
RECURSIVE Relax(_, _, _)
Relax(visits, indegree, zero) ==
    IF visits = <<>> THEN [indegree |-> indegree, zero |-> zero]
    ELSE LET child == Head(visits)
             d == indegree[child] - 1
         IN  Relax(Tail(visits), [indegree EXCEPT ![child] = d],
                   IF d = 0 THEN Append(zero, child) ELSE zero)

RECURSIVE Generations(_, _, _, _)
Generations(G, indegree, zero, out) ==
    IF zero = <<>> THEN out
    ELSE LET visits == Concat([i \in 1..Len(zero) |-> Successors(G, zero[i])])
             r == Relax(visits, indegree, <<>>)
         IN  Generations(G, r.indegree, r.zero, out \o zero)

\* nx.topological_sort: the generations, one after the other
topological_sort(G) ==
    Generations(G,
                [n \in Range(G.nodes) |-> InDegree(G, n)],
                SelectSeq(G.nodes, LAMBDA n : InDegree(G, n) = 0),
                <<>>)

----------------------------------------------------------------------------
(* HomeLabInABox: planning *)

\* get_desired_modules: the wanted entries, empty ones skipped
get_desired_modules(wanted) == SelectSeq(wanted, LAMBDA m : m # "")

\* get_module_spec: the spec of that name, or None when the loop finds none
get_module_spec(catalog, target_module) ==
    IF target_module \in DOMAIN catalog THEN target_module ELSE PyNone

\* check_for_cycles, the set of outcomes: no error on an acyclic graph,
\* otherwise a ModuleConfigurationError listing nx.simple_cycles
\* faulty variant: the chain closed on its first module
ClosedChain(cycle) == Append(cycle, cycle[1])

\* ' -> '.join(cycle): the modules of the cycle, in the order listed
CycleChain(cycle) == cycle
CycleError(G) ==
    {[kind |-> "ModuleConfigurationError",
      cycles |-> {CycleChain(c) : c \in listing}] : listing \in simple_cycles(G)}
check_for_cycles(G) ==
    IF is_directed_acyclic_graph(G) THEN {NoError} ELSE CycleError(G)

\* the edge add_module_dependencies_to_graph inserts for one dependency
DependencyEdge(dependency, module_name) == <<dependency, module_name>>

\* add_module_dependencies_to_graph: the module's node, then one edge per
\* dependency, each followed by check_for_cycles; stops at the first cycle
RECURSIVE AddDependencyEdges(_, _, _)
AddDependencyEdges(G, deps, module_name) ==
    IF deps = <<>> THEN [graph |-> G, cyclic |-> FALSE]
    ELSE LET e == DependencyEdge(Head(deps), module_name)
             G1 == add_edge(G, e[1], e[2])
         IN  IF ~is_directed_acyclic_graph(G1)
             THEN [graph |-> G1, cyclic |-> TRUE]
             ELSE AddDependencyEdges(G1, Tail(deps), module_name)

add_module_dependencies_to_graph(G, deps, module_name) ==
    AddDependencyEdges(add_node(G, module_name), deps, module_name)

\* add_module_dependencies_to_desired_modules: each dependency not yet in the
\* list is appended to it
RECURSIVE add_module_dependencies_to_desired_modules(_, _)
add_module_dependencies_to_desired_modules(names, deps) ==
    IF deps = <<>> THEN names
    ELSE add_module_dependencies_to_desired_modules(
            IF InSeq(Head(deps), names) THEN names ELSE Append(names, Head(deps)),
            Tail(deps))

\* the test of line 408: no dependencies when the first entry is falsy or "None"
IsSentinel(deps) == deps[1] = PyNone \/ deps[1] = "" \/ deps[1] = NoneString

\* faulty variant: the loop walks a copy of the list taken before it started
LoopListSnapshot(names, initial) == SubSeq(names, 1, initial)

\* the list the for loop of process_modules walks: desired_module_names
\* itself, so entries appended during the loop are visited too
LoopList(names, initial) == names

\* process_modules from loop position idx; raised names the exception that
\* ended it ("none": the loop ran to the end of the list)
RECURSIVE ProcessLoop(_, _, _, _, _, _)
ProcessLoop(catalog, names, modules, G, idx, initial) ==
    IF idx > Len(LoopList(names, initial))
    THEN [names |-> names, modules |-> modules, graph |-> G, raised |-> "none"]
    ELSE LET module_name == names[idx]
             spec == get_module_spec(catalog, module_name)
             modules1 == Append(modules, spec)
             stop(kind, G1) ==
                 [names |-> names, modules |-> modules1, graph |-> G1, raised |-> kind]
         IN  IF spec = PyNone THEN stop("TypeError", G)
             ELSE IF catalog[spec] = <<>> THEN stop("IndexError", G)
             ELSE IF IsSentinel(catalog[spec])
                  THEN ProcessLoop(catalog, names, modules1, G, idx + 1, initial)
             ELSE LET r == add_module_dependencies_to_graph(G, catalog[spec], spec)
                  IN  IF r.cyclic THEN stop("ModuleConfigurationError", r.graph)
                      ELSE ProcessLoop(catalog,
                               add_module_dependencies_to_desired_modules(names, catalog[spec]),
                               modules1, r.graph, idx + 1, initial)

process_modules(catalog, names) ==
    ProcessLoop(catalog, names, <<>>, EmptyGraph, 1, Len(names))

\* faulty variant: the graph's nodes as they were inserted, not sorted
NodesInInsertionOrder(G) == G.nodes

\* get_deployment_order
get_deployment_order(G) == topological_sort(G)

\* faulty variant: a spec absent from the order gets the first position's key
AbsentKeyedFirst(item, order) ==
    IF InSeq(item, order) THEN IndexOf(item, order) ELSE 1

\* faulty variant: a role that exists is linked again, to the later module
RECURSIVE RelinkRoles(_, _, _)
RelinkRoles(links, role_names, module) ==
    IF role_names = <<>> THEN links
    ELSE RelinkRoles(
            Append(SelectSeq(links, LAMBDA l : l.role # Head(role_names)),
                   [role |-> Head(role_names), module |-> module]),
            Tail(role_names), module)

\* order_desired_modules: a stable sort of the specs by their position in the
\* deployment order, the ones absent from it keyed after all others
custom_key(item, order) ==
    IF InSeq(item, order) THEN IndexOf(item, order) ELSE Len(order) + 1

order_desired_modules(modules, order) ==
    Concat([k \in 1..(Len(order) + 1) |->
                SelectSeq(modules, LAMBDA m : custom_key(m, order) = k)])

----------------------------------------------------------------------------
(* AnsibleWrapper: the engine's output *)

\* longest engine output, in lines
MaxLines == 3

Has(obj, key) == key \in DOMAIN obj

\* the stdout texts of the engine's events
FailedText1 == "fatal: [h1]: FAILED! => {msg: boom}"
FailedText2 == "fatal: [h2]: FAILED! => {msg: bang}"
UnreachableText == "fatal: [h1]: UNREACHABLE! => {msg: no route}"
StdoutTexts ==
    {"", "TASK [t1] ***", "ok: [h1]", "changed: [h2]", "PLAY RECAP ***",
     FailedText1, FailedText2, UnreachableText}

\* re.search(r'.*: FAILED! .*', text), tabulated over StdoutTexts
MatchesFailed(text) == text \in {FailedText1, FailedText2}

EventData(task, host, addr, res) ==
    [playbook |-> "playbook.yaml", task |-> task, task_action |-> "command",
     host |-> host, remote_addr |-> addr, res |-> res]

\* a JSON line of the engine: an event object
JsonLine(obj) == [syntax |-> "json", data |-> obj]

TaskStartEvent ==
    JsonLine([event |-> "playbook_on_task_start", stdout |-> "TASK [t1] ***",
              event_data |-> [playbook |-> "playbook.yaml", task |-> "t1",
                              task_action |-> "command"]])
OkEvent1 ==
    JsonLine([event |-> "runner_on_ok", stdout |-> "ok: [h1]",
              event_data |-> EventData("t1", "h1", "10.0.0.1",
                  [changed |-> FALSE, msg |-> "fine", warnings |-> "w"])])
OkEvent2 ==
    JsonLine([event |-> "runner_on_ok", stdout |-> "ok: [h1]",
              event_data |-> EventData("t2", "h1", "10.0.0.1",
                  [changed |-> FALSE, stdout |-> "out", _ansible_no_log |-> FALSE])])
OkEvent3 ==
    JsonLine([event |-> "runner_on_ok", stdout |-> "changed: [h2]",
              event_data |-> EventData("t1", "h2", "10.0.0.2",
                  [changed |-> TRUE, deprecations |-> "d"])])
\* an ok event without a remote address
OkEventNoAddr ==
    JsonLine([event |-> "runner_on_ok", stdout |-> "ok: [h1]",
              event_data |-> [playbook |-> "playbook.yaml", task |-> "t2",
                              task_action |-> "command", host |-> "h1",
                              res |-> [changed |-> FALSE]]])
FailedEvent1 ==
    JsonLine([event |-> "runner_on_failed", stdout |-> FailedText1,
              event_data |-> EventData("t1", "h1", "10.0.0.1",
                  [changed |-> FALSE, msg |-> "boom"])])
FailedEvent2 ==
    JsonLine([event |-> "runner_on_failed", stdout |-> FailedText2,
              event_data |-> EventData("t2", "h2", "10.0.0.2",
                  [changed |-> TRUE, msg |-> "bang"])])
\* a failed event that names no host address
FailedEventNoAddr ==
    JsonLine([event |-> "runner_on_failed", stdout |-> FailedText1,
              event_data |-> [playbook |-> "playbook.yaml", task |-> "t2",
                              task_action |-> "command", host |-> "h1",
                              res |-> [changed |-> FALSE, msg |-> "boom"]]])
UnreachableEvent ==
    JsonLine([event |-> "runner_on_unreachable", stdout |-> UnreachableText,
              event_data |-> EventData("t1", "h1", "10.0.0.1",
                  [changed |-> FALSE, unreachable |-> TRUE, msg |-> "no route"])])
StatsEvent ==
    JsonLine([event |-> "playbook_on_stats", stdout |-> "PLAY RECAP ***",
              event_data |-> [playbook |-> "playbook.yaml"]])

\* a line the warning pattern of clean_stdout matches, with the message its
\* group captures
WarningLine == [syntax |-> "warning", message |-> "provided hosts list is empty"]
\* a line that is neither JSON nor a match of the warning pattern
JunkLine == [syntax |-> "junk"]

OkEvents == {OkEvent1, OkEvent2, OkEvent3, OkEventNoAddr}
FailedEvents == {FailedEvent1, FailedEvent2, FailedEventNoAddr}
Lines ==
    OkEvents \cup FailedEvents
        \cup {TaskStartEvent, UnreachableEvent, StatsEvent, WarningLine, JunkLine}

\* runner.rc: 0, 2 (a task failed), 4 (a host was unreachable)
ReturnCodes == {0, 2, 4}

----------------------------------------------------------------------------
(* AnsibleWrapper: the methods *)

\* re.search(r'.*\[WARNING\]: (.*) .*\[0m', line)
is_a_warning(line) == line.syntax = "warning"

\* is_valid_json: json.loads(line) succeeds
is_valid_json(line) == line.syntax = "json"

Read(phase, position) == <<phase, position>>

\* get_task_data: each of task, action, host and address that the event
\* lacks is 'Unknown'
get_task_data(task) ==
    LET field(key) ==
            IF Has(task, "event_data") /\ Has(task.event_data, key)
            THEN task.event_data[key] ELSE "Unknown"
    IN  [task_name |-> field("task"), task_action |-> field("task_action"),
         task_host |-> field("host"), task_host_ip |-> field("remote_addr")]

\* (entry - 1) < 0, the value parse_warning_message names has_previous_entry
has_previous_entry(entry) == (entry - 1) < 0

\* Python's lines[index]: a negative index counts from the end
PyIndex(lines, index) ==
    IF index < 0 THEN Len(lines) + index + 1 ELSE index + 1

\* parse_warning_message, entry counted from 0 as enumerate does: what it
\* prints, the line it reads, and the exception json.loads raises on a line
\* that is not JSON
parse_warning_message(module_name, message, entry, lines) ==
    IF ~has_previous_entry(entry)
    THEN [printed |-> <<[report |-> "undetermined warning", module |-> module_name,
                         message |-> message]>>,
          examined |-> <<>>, raised |-> NoError]
    ELSE LET at == PyIndex(lines, entry - 1)
             previous == lines[at]
         IN  IF ~is_valid_json(previous)
             THEN [printed |-> <<>>, examined |-> <<Read("previous", at)>>,
                   raised |-> [kind |-> "JSONDecodeError"]]
             ELSE [printed |-> <<[report |-> "warning", module |-> module_name,
                                  context |-> get_task_data(previous.data),
                                  message |-> message]>>,
                   examined |-> <<Read("previous", at)>>, raised |-> NoError]

\* clean_stdout from entry (0-based) on
RECURSIVE CleanLoop(_, _, _, _)
CleanLoop(module_name, lines, entry, acc) ==
    IF entry >= Len(lines) THEN acc
    ELSE LET line == lines[entry + 1]
             seen == [acc EXCEPT !.examined = Append(@, Read("clean", entry + 1))]
         IN  IF is_a_warning(line)
             THEN LET w == parse_warning_message(module_name, line.message, entry, lines)
                      acc1 == [seen EXCEPT !.printed = @ \o w.printed,
                                           !.examined = @ \o w.examined,
                                           !.raised = w.raised]
                  IN  IF w.raised # NoError THEN acc1
                      ELSE CleanLoop(module_name, lines, entry + 1, acc1)
             ELSE IF ~is_valid_json(line)
             THEN [seen EXCEPT !.raised = [kind |-> "DataParsingException"]]
             ELSE CleanLoop(module_name, lines, entry + 1,
                            [seen EXCEPT !.cleaned = Append(@, line),
                                         !.kept = Append(@, entry + 1)])

\* clean_stdout: the lines kept (kept: their positions in the output), what
\* was printed, the reads made, the exception raised
clean_stdout(module_name, lines) ==
    CleanLoop(module_name, lines, 0,
              [cleaned |-> <<>>, kept |-> <<>>, printed |-> <<>>, examined |-> <<>>,
               raised |-> NoError])

\* the f-string of line 73
ErrorMessage(module_name, json_data) ==
    LET t == get_task_data(json_data)
    IN  [module |-> module_name, task_name |-> t.task_name,
         task_action |-> t.task_action, task_host |-> t.task_host,
         task_host_ip |-> t.task_host_ip, text |-> json_data.stdout]

\* the test locate_execution_errors makes of one line
IsErrorLine(json_data) ==
    /\ Has(json_data, "stdout")
    /\ json_data.stdout # ""
    /\ MatchesFailed(json_data.stdout)

\* locate_execution_errors from line entry (1-based) on: the message of the
\* first line that passes the test; None when the loop ends without one
RECURSIVE LocateLoop(_, _, _, _)
LocateLoop(module_name, lines, entry, reads) ==
    IF entry > Len(lines) THEN [message |-> NoneMessage, reads |-> reads]
    ELSE IF IsErrorLine(lines[entry].data)
         THEN [message |-> ErrorMessage(module_name, lines[entry].data),
               reads |-> Append(reads, entry)]
         ELSE LocateLoop(module_name, lines, entry + 1, Append(reads, entry))

\* faulty variant: the loop keeps going and returns the last line that passes
\* the test
RECURSIVE LocateLastLoop(_, _, _, _, _)
LocateLastLoop(module_name, lines, entry, reads, found) ==
    IF entry > Len(lines) THEN [message |-> found, reads |-> reads]
    ELSE LocateLastLoop(module_name, lines, entry + 1, Append(reads, entry),
                        IF IsErrorLine(lines[entry].data)
                        THEN ErrorMessage(module_name, lines[entry].data) ELSE found)

locate_last_error(module_name, lines) ==
    LocateLastLoop(module_name, lines, 1, <<>>, NoneMessage)

locate_execution_errors(module_name, lines) == LocateLoop(module_name, lines, 1, <<>>)

\* faulty variant: changed is not among the unwanted keys
UnwantedKeysWithoutChanged ==
    {"warnings", "deprecations", "_ansible_verbose_override", "_ansible_no_log",
     "_ansible_verbose_always"}

\* clean_result_data: the result without the unwanted keys, and its changed flag
unwanted_keys ==
    {"warnings", "deprecations", "_ansible_verbose_override", "_ansible_no_log",
     "_ansible_verbose_always", "changed"}

clean_result_data(result) ==
    [result_data |-> [k \in (DOMAIN result) \ unwanted_keys |-> result[k]],
     changed |-> result.changed]

\* the first key parse_json_data reads that the event lacks ("": none)
MissingKey(data) ==
    IF ~Has(data.event_data.res, "changed") THEN "changed"
    ELSE IF ~Has(data.event_data, "playbook") THEN "playbook"
    ELSE IF ~Has(data.event_data, "host") THEN "host"
    ELSE IF ~Has(data.event_data, "remote_addr") THEN "remote_addr"
    ELSE IF ~Has(data.event_data, "task") THEN "task"
    ELSE IF ~Has(data.event_data, "task_action") THEN "task_action"
    ELSE ""

\* the event parse_json_data appends for one line
TaskResult(data) ==
    LET c == clean_result_data(data.event_data.res)
    IN  [playbook |-> data.event_data.playbook,
         hostname |-> data.event_data.host,
         ip_address |-> data.event_data.remote_addr,
         task_name |-> data.event_data.task,
         task_action |-> data.event_data.task_action,
         result_data |-> c.result_data,
         changed |-> c.changed]

AppendEvent(report, event) ==
    IF event.hostname \in DOMAIN report
    THEN [report EXCEPT ![event.hostname] = Append(@, event)]
    ELSE [h \in (DOMAIN report) \cup {event.hostname} |->
            IF h = event.hostname THEN <<event>> ELSE report[h]]

\* parse_json_data from element entry (1-based) on
RECURSIVE ParseLoop(_, _, _)
ParseLoop(runner_output, entry, acc) ==
    IF entry > Len(runner_output) THEN acc
    ELSE LET data == runner_output[entry]
             seen == [acc EXCEPT !.reads = Append(@, entry)]
         IN  IF ~Has(data, "event_data") \/ ~Has(data.event_data, "res")
             THEN ParseLoop(runner_output, entry + 1, seen)
             ELSE IF MissingKey(data) # ""
             THEN [seen EXCEPT !.raised = [kind |-> "KeyError", key |-> MissingKey(data)]]
             ELSE ParseLoop(runner_output, entry + 1,
                            [seen EXCEPT !.event_data = AppendEvent(@, TaskResult(data))])

parse_json_data(report, runner_output) ==
    ParseLoop(runner_output, 1, [event_data |-> report, reads |-> <<>>, raised |-> NoError])

\* json.loads of the joined lines: the list of the lines' objects
JoinAndLoad(lines) == [i \in 1..Len(lines) |-> lines[i].data]

\* AnsibleWrapper.run: construct_json_data (clean_stdout, then with a non-zero
\* rc locate_execution_errors and the raise), then parse_json_data
run(name, lines, code) ==
    LET c == clean_stdout(name, lines)
    IN  IF c.raised # NoError THEN [raised |-> c.raised, event_data |-> <<>>]
        ELSE IF code # 0
        THEN [raised |-> [kind |-> "AnsibleRunTimeExecution",
                          message |-> locate_execution_errors(name, c.cleaned).message],
              event_data |-> <<>>]
        ELSE LET p == parse_json_data(<<>>, JoinAndLoad(c.cleaned))
             IN  [raised |-> p.raised, event_data |-> p.event_data]

----------------------------------------------------------------------------
(* HomeLabInABox: roles and module runs *)

\* the role directories under Modules/<module>/roles, as os.listdir gives them
ModuleRoles ==
    [n \in Names |->
        CASE n = "A" -> <<"common", "a_role">>
          [] n = "B" -> <<"common", "b_role">>
          [] OTHER -> <<"c_role">>]

\* link_module_roles: each role of the module not yet in the main roles
\* directory is linked there; one that exists is left alone
RECURSIVE LinkRoles(_, _, _)
LinkRoles(links, role_names, module) ==
    IF role_names = <<>> THEN links
    ELSE LinkRoles(
            IF \E i \in 1..Len(links) : links[i].role = Head(role_names)
            THEN links
            ELSE Append(links, [role |-> Head(role_names), module |-> module]),
            Tail(role_names), module)

link_module_roles(links, module) == LinkRoles(links, ModuleRoles[module], module)

\* longest playbook of SpecInventory, in plays
MaxPlays == 4

\* the host patterns of the plays
HostPatterns == {"localhost", "all", "hypervisor"}

\* Modules/<module>/playbook.yaml: the plays of each module's playbook
ModulePlaybooks ==
    [n \in Names |->
        CASE n = "A" -> <<[hosts |-> "localhost"]>>
          [] n = "B" -> <<[hosts |-> "localhost"], [hosts |-> "all"]>>
          [] OTHER -> <<[hosts |-> "hypervisor"]>>]

\* play["vars"] = self.configuration_variables
WithVars(play, variables) == [hosts |-> play.hosts, vars |-> variables]

\* get_module_playbook: the module's plays, each with the configuration
\* variables as its vars
get_module_playbook(module, variables) ==
    [k \in 1..Len(ModulePlaybooks[module]) |-> WithVars(ModulePlaybooks[module][k], variables)]

\* self.terraform_inventory, and the dummy inventory
terraform_inventory == "inventory/terraform_inventory.yaml"
DevNull == "/dev/null"

\* faulty variant: the play told localhost from the others by its last play only
LastPlayIsLocal(plays, k, just_local_host) ==
    plays = <<>> \/ plays[Len(plays)].hosts = "localhost"

\* the loop of get_module_inventory from play k on: just_local_host at its end
RECURSIVE JustLocalHost(_, _, _)
JustLocalHost(plays, k, just_local_host) ==
    IF k > Len(plays) THEN just_local_host
    ELSE JustLocalHost(plays, k + 1,
                       IF plays[k].hosts # "localhost" THEN FALSE ELSE just_local_host)

get_module_inventory(plays) ==
    IF ~JustLocalHost(plays, 1, TRUE) THEN terraform_inventory ELSE DevNull

\* what the engine can print and return for one module run
EngineOutputs ==
    {[stdout |-> <<TaskStartEvent, OkEvent1, StatsEvent>>, rc |-> 0],
     [stdout |-> <<TaskStartEvent, FailedEvent1, StatsEvent>>, rc |-> 2]}

----------------------------------------------------------------------------
(* HomeLabInABox: the module specs' variables and configuration.yaml *)

\* most build/validate calls of one run of SpecConfig
MaxCalls == 3
\* most edits the user makes to configuration.yaml in one run of SpecConfig
MaxEdits == 2

\* a YAML scalar as Python loads it: its Python type and its text
Value(type, text) == [type |-> type, text |-> text]
NoneValue == Value("NoneType", "null")

\* required_variables of the catalog's spec.yaml files (spec §6: a
\* required-variable list with name/type/default/description); the default of
\* C's variable is left empty in its spec.yaml, which YAML loads as None
RequiredVariables ==
    [n \in Names |->
        CASE n = "A" ->
                <<[name |-> "a_port", description |-> "port of a", type |-> "int",
                   default |-> Value("int", "22")],
                  [name |-> "a_host", description |-> "host of a", type |-> "str",
                   default |-> Value("str", "lab")]>>
          [] n = "B" ->
                <<[name |-> "b_enabled", description |-> "switch of b", type |-> "bool",
                   default |-> Value("bool", "true")]>>
          [] OTHER ->
                <<[name |-> "c_note", description |-> "note of c", type |-> "str",
                   default |-> NoneValue]>>]

\* a module spec as get_all_modules loads it: the keys of spec.yaml and name
ModuleSpec(catalog, name) ==
    [name |-> name, description |-> "a module", dependencies |-> catalog[name],
     required_variables |-> RequiredVariables[name]]

\* None where get_module_spec found no spec of the name
NoneSpec == [none |-> PyNone]

\* there is no configuration.yaml
NoFile == [exists |-> FALSE]
\* the dict {} of __init__: a dict without the key Modules
EmptyDict == [empty |-> TRUE]

\* faulty variant: the file is not loaded again
KeepInMemoryConfiguration(yaml, in_memory) == in_memory

\* load_desired_modules, lines 437-438: the file is loaded when it exists
load_configuration(yaml, in_memory) == IF yaml # NoFile THEN yaml ELSE in_memory

\* the exceptions a raising process_modules ends with
LoadErrors(r) ==
    IF r.raised = "ModuleConfigurationError" THEN check_for_cycles(r.graph)
    ELSE {[kind |-> r.raised]}

\* load_desired_modules, lines 440-444: get_desired_modules, process_modules
\* and, when that raised nothing, order_desired_modules
load_desired_modules(catalog, choices) ==
    LET r == process_modules(catalog, get_desired_modules(choices))
    IN  IF r.raised # "none" THEN r
        ELSE [r EXCEPT !.modules = order_desired_modules(@, get_deployment_order(r.graph))]

\* the configuration block build_configuration_file makes for a module
configuration_block(module) ==
    LET v == RequiredVariables[module]
    IN  [Name |-> module,
         Required_Variables |->
            [j \in 1..Len(v) |->
                [Name |-> <<v[j].name>>, Description |-> v[j].description,
                 Value |-> v[j].default]]]

\* faulty variant: the document being built is never searched for the name
BlockNeverExists(configuration_file, block) == FALSE

\* config_block_exists: some block of the document being built has the name
config_block_exists(configuration_file, block) ==
    \E i \in 1..Len(configuration_file.Modules) :
        configuration_file.Modules[i].Name = block.Name

\* the loop of build_configuration_file over desired_modules
RECURSIVE BuildLoop(_, _, _)
BuildLoop(configuration_file, modules, k) ==
    IF k > Len(modules) THEN configuration_file
    ELSE LET block == configuration_block(modules[k])
         IN  IF config_block_exists(configuration_file, block)
             THEN BuildLoop(configuration_file, modules, k + 1)
             ELSE BuildLoop([configuration_file EXCEPT !.Modules = Append(@, block)],
                            modules, k + 1)

\* the document build_configuration_file starts from
StartingDocument(refresh, yaml) == IF refresh THEN yaml ELSE [Modules |-> <<>>]

\* build_configuration_file: the exception raised, the file and the
\* in-memory configuration afterwards, and what load_desired_modules left
build_configuration_file(refresh, yaml, in_memory, catalog, choices) ==
    IF refresh /\ yaml = NoFile
    THEN [raised |-> {[kind |-> "FileNotFoundError"]}, yaml |-> yaml,
          configuration |-> in_memory, loaded |-> FALSE]
    ELSE LET l == load_desired_modules(catalog, choices)
         IN  IF l.raised # "none"
             THEN [raised |-> LoadErrors(l), yaml |-> yaml,
                   configuration |-> load_configuration(yaml, in_memory),
                   loaded |-> TRUE]
             ELSE LET built == BuildLoop(StartingDocument(refresh, yaml), l.modules, 1)
                  IN  [raised |-> {NoError}, yaml |-> built, configuration |-> built,
                       loaded |-> TRUE]

\* the keys of type_mappings
type_mappings == {"str", "list", "int", "bool", "dict"}

\* isinstance(value, type_mappings[tag]); bool is a subclass of int
isinstance(value, tag) == value.type = tag \/ (tag = "int" /\ value.type = "bool")

\* faulty variant: no name is accepted
NoValidName(module_spec, variable) == FALSE

\* lines 503-506: some declared variable has the entry's name
valid_name(module_spec, variable) ==
    \E k \in 1..Len(module_spec.required_variables) :
        <<module_spec.required_variables[k].name>> = variable.Name

\* the message of line 512 and that of line 520
UnexpectedName(variables) ==
    [note |-> " <--- unexpected variable name, expected one of these", names |-> variables]
InvalidType(type) == [note |-> " <--- invalid type, expected a", type |-> type]

\* validate_configuration_file, the inner loop from entry j (1-based) of
\* block i on: the document in memory, valid, the exception raised
RECURSIVE ValidateVariables(_, _, _, _, _)
ValidateVariables(module_spec, doc, i, j, valid) ==
    IF j > Len(doc.Modules[i].Required_Variables)
    THEN [doc |-> doc, valid |-> valid, raised |-> NoError]
    ELSE IF module_spec = NoneSpec
    THEN [doc |-> doc, valid |-> valid, raised |-> [kind |-> "TypeError"]]
    ELSE
    LET variable == doc.Modules[i].Required_Variables[j]
        name_ok == valid_name(module_spec, variable)
    IN  IF ~name_ok /\ ~Has(module_spec, "variables")
        THEN [doc |-> doc, valid |-> FALSE,
              raised |-> [kind |-> "KeyError", key |-> "variables"]]
        ELSE
        LET doc1 == IF name_ok THEN doc
                    ELSE [doc EXCEPT !.Modules[i].Required_Variables[j].Name =
                                        Append(@, UnexpectedName(module_spec.variables))]
            valid1 == valid /\ name_ok
        IN  IF j > Len(module_spec.required_variables)
            THEN [doc |-> doc1, valid |-> valid1, raised |-> [kind |-> "IndexError"]]
            ELSE IF module_spec.required_variables[j].type \notin type_mappings
            THEN [doc |-> doc1, valid |-> valid1,
                  raised |-> [kind |-> "KeyError",
                              key |-> module_spec.required_variables[j].type]]
            ELSE IF isinstance(variable.Value, module_spec.required_variables[j].type)
            THEN ValidateVariables(module_spec, doc1, i, j + 1, valid1)
            ELSE IF ~Has(module_spec, "type")
            THEN [doc |-> doc1, valid |-> FALSE,
                  raised |-> [kind |-> "KeyError", key |-> "type"]]
            ELSE IF variable.Value.type # "str"
            THEN [doc |-> doc1, valid |-> FALSE, raised |-> [kind |-> "TypeError"]]
            ELSE ValidateVariables(
                    module_spec,
                    [doc1 EXCEPT !.Modules[i].Required_Variables[j].Name =
                                    <<variable.Value.text, InvalidType(module_spec.type)>>],
                    i, j + 1, FALSE)

\* validate_configuration_file, the outer loop from block i on
RECURSIVE ValidateModules(_, _, _, _)
ValidateModules(catalog, doc, i, valid) ==
    IF i > Len(doc.Modules) THEN [doc |-> doc, valid |-> valid, raised |-> NoError]
    ELSE LET name == get_module_spec(catalog, doc.Modules[i].Name)
             module_spec == IF name = PyNone THEN NoneSpec ELSE ModuleSpec(catalog, name)
             v == ValidateVariables(module_spec, doc, i, 1, valid)
         IN  IF v.raised # NoError THEN v
             ELSE ValidateModules(catalog, v.doc, i + 1, v.valid)

\* lines 522-523: the annotated document is saved when it is not valid
SavedConfiguration(valid, yaml, doc) == IF ~valid THEN doc ELSE yaml

\* validate_configuration_file: the exception raised, what it returns, the
\* file and the in-memory configuration afterwards
validate_configuration_file(yaml, in_memory, catalog, choices) ==
    LET l == load_desired_modules(catalog, choices)
        loaded == load_configuration(yaml, in_memory)
    IN  IF l.raised # "none"
        THEN [raised |-> LoadErrors(l), valid |-> TRUE, yaml |-> yaml,
              configuration |-> loaded]
        ELSE IF ~Has(loaded, "Modules")
        THEN [raised |-> {[kind |-> "KeyError", key |-> "Modules"]}, valid |-> TRUE,
              yaml |-> yaml, configuration |-> loaded]
        ELSE LET v == ValidateModules(catalog, loaded, 1, TRUE)
             IN  IF v.raised # NoError
                 THEN [raised |-> {v.raised}, valid |-> v.valid, yaml |-> yaml,
                       configuration |-> v.doc]
                 ELSE [raised |-> {NoError}, valid |-> v.valid,
                       yaml |-> SavedConfiguration(v.valid, yaml, v.doc),
                       configuration |-> v.doc]

\* what generate_and_hash_password and generate_ansible_ssh_keypair return
GeneratedSecret == Value("str", "<generated>")

\* the entries of all blocks of a document, in order
RECURSIVE AllEntries(_)
AllEntries(blocks) ==
    IF blocks = <<>> THEN <<>>
    ELSE Head(blocks).Required_Variables \o AllEntries(Tail(blocks))

\* gather_configuration_variables: the value of each entry under its name,
\* the last entry of a name winning, and the two generated secrets
gather_configuration_variables(variables, doc) ==
    LET entries == AllEntries(doc.Modules)
        generated == {<<"root_password_hash">>, <<"ansible_public_key">>}
        names == {entries[k].Name : k \in 1..Len(entries)}
        last_of(n) == CHOOSE k \in 1..Len(entries) :
                        /\ entries[k].Name = n
                        /\ \A m \in (k + 1)..Len(entries) : entries[m].Name # n
    IN  [n \in (DOMAIN variables) \cup names \cup generated |->
            IF n \in generated THEN GeneratedSecret
            ELSE IF n \in names THEN entries[last_of(n)].Value
            ELSE variables[n]]

\* the configuration.yaml a deploy can find: none, or one with a block for B
DeployDocuments == {NoFile, [Modules |-> <<configuration_block("B")>>]}

\* configuration_variables of __init__: the dict {}
NoVariables == [n \in {} |-> GeneratedSecret]

----------------------------------------------------------------------------
(* Spec: one call of deploy_homelab *)

\* no build/validate call was made
NoCall == [op |-> "none"]

ConfigIdle ==
    /\ configuration_yaml = NoFile
    /\ configuration = EmptyDict
    /\ configuration_variables = NoVariables
    /\ calls = 0
    /\ edits = 0
    /\ last = NoCall

\* no playbook was rendered, no inventory chosen
NoInventory == "<none>"

FlowIdle ==
    /\ playbook = <<>>
    /\ inventory = NoInventory
    /\ main_log = <<>>

RunIdle ==
    /\ stdout = <<>>
    /\ rc = 0
    /\ cleaned_stdout = <<>>
    /\ printed = <<>>
    /\ examined = <<>>
    /\ event_data = <<>>
    /\ raised = NoError
    /\ self_module_name = "A"
    /\ rpc = "idle"

Init ==
    /\ all_modules \in [Names -> DependencyDecls]
    /\ module_choices \in SeqsUpTo(Names, MaxWanted)
    /\ desired_module_names = <<>>
    /\ desired_modules = <<>>
    /\ dependency_graph = EmptyGraph
    /\ deployment_order = NotComputed
    /\ order_calls = 0
    /\ roles = <<>>
    /\ link_idx = 0
    /\ invoked = <<>>
    /\ returned = <<>>
    /\ error = NoError
    /\ pc = "get_desired_modules"
    /\ RunIdle
    /\ configuration_yaml \in DeployDocuments
    /\ configuration = EmptyDict
    /\ configuration_variables = NoVariables
    /\ calls = 0
    /\ edits = 0
    /\ last = NoCall
    /\ FlowIdle

\* load_desired_modules up to its first call: configuration.yaml is loaded
\* when it exists, then get_desired_modules
GetDesiredModules ==
    /\ pc = "get_desired_modules"
    /\ configuration' = load_configuration(configuration_yaml, configuration)
    /\ desired_module_names' = get_desired_modules(module_choices)
    /\ pc' = "process_modules"
    /\ UNCHANGED <<configuration_yaml, configuration_variables, calls, edits, last>>
    /\ UNCHANGED <<all_modules, module_choices, desired_modules, dependency_graph,
                   deployment_order, order_calls, roles, link_idx, invoked, returned, error>>
    /\ UNCHANGED runVars
    /\ UNCHANGED flowVars

\* load_desired_modules, second call: process_modules
ProcessModules ==
    /\ pc = "process_modules"
    /\ LET r == process_modules(all_modules, desired_module_names)
       IN  /\ desired_module_names' = r.names
           /\ desired_modules' = r.modules
           /\ dependency_graph' = r.graph
           /\ IF r.raised = "none"
              THEN error' = error /\ pc' = "order_desired_modules"
              ELSE /\ pc' = "failed"
                   /\ IF r.raised = "ModuleConfigurationError"
                      THEN error' \in check_for_cycles(r.graph)
                      ELSE error' = [kind |-> r.raised]
    /\ UNCHANGED <<all_modules, module_choices, deployment_order, order_calls, roles,
                   link_idx, invoked, returned>>
    /\ UNCHANGED runVars
    /\ UNCHANGED flowVars
    /\ UNCHANGED configVars

\* load_desired_modules, third call: order_desired_modules
OrderDesiredModules ==
    /\ pc = "order_desired_modules"
    /\ desired_modules' =
          order_desired_modules(desired_modules, get_deployment_order(dependency_graph))
    /\ order_calls' = order_calls + 1
    /\ link_idx' = 1
    /\ pc' = "link_module_roles"
    /\ UNCHANGED <<all_modules, module_choices, desired_module_names, dependency_graph,
                   deployment_order, roles, invoked, returned, error>>
    /\ UNCHANGED runVars
    /\ UNCHANGED flowVars
    /\ UNCHANGED configVars

\* deploy_homelab: one turn of the loop that links the modules' roles
LinkModuleRoles ==
    /\ pc = "link_module_roles"
    /\ link_idx <= Len(desired_modules)
    /\ roles' = link_module_roles(roles, desired_modules[link_idx])
    /\ link_idx' = link_idx + 1
    /\ UNCHANGED <<all_modules, module_choices, desired_module_names, desired_modules,
                   dependency_graph, deployment_order, order_calls, invoked, returned, error, pc>>
    /\ UNCHANGED runVars
    /\ UNCHANGED flowVars
    /\ UNCHANGED configVars

\* deploy_homelab: get_deployment_order, after the linking loop
GetDeploymentOrder ==
    /\ pc = "link_module_roles"
    /\ link_idx > Len(desired_modules)
    /\ deployment_order' = get_deployment_order(dependency_graph)
    /\ order_calls' = order_calls + 1
    /\ pc' = "gather_configuration_variables"
    /\ UNCHANGED <<all_modules, module_choices, desired_module_names, desired_modules,
                   dependency_graph, roles, link_idx, invoked, returned, error>>
    /\ UNCHANGED runVars
    /\ UNCHANGED flowVars
    /\ UNCHANGED configVars

\* deploy_homelab: gather_configuration_variables; without a loaded
\* configuration.yaml, self.configuration["Modules"] raises KeyError
GatherConfigurationVariables ==
    /\ pc = "gather_configuration_variables"
    /\ IF Has(configuration, "Modules")
       THEN /\ configuration_variables' =
                    gather_configuration_variables(configuration_variables, configuration)
            /\ pc' = "execute_ansible_playbooks"
            /\ error' = error
       ELSE /\ configuration_variables' = configuration_variables
            /\ pc' = "failed"
            /\ error' = [kind |-> "KeyError", key |-> "Modules"]
    /\ UNCHANGED <<all_modules, module_choices, desired_module_names, desired_modules,
                   dependency_graph, deployment_order, order_calls, roles, link_idx,
                   invoked, returned>>
    /\ UNCHANGED runVars
    /\ UNCHANGED flowVars
    /\ UNCHANGED <<configuration_yaml, configuration, calls, edits, last>>

\* faulty variant: the loop goes on to the next module whatever the run did
AfterRunGoOn(outcome) == "execute_ansible_playbooks"

\* where execute_ansible_playbooks goes on when ansible_runner.run has ended:
\* an exception leaves the loop and deploy_homelab
AfterRun(outcome) ==
    IF outcome.raised # NoError THEN "failed" ELSE "execute_ansible_playbooks"

\* execute_ansible_playbooks: one turn of its loop up to the start of the
\* module's engine run (AnsibleWrapper.run, ansible_runner.run)
ExecuteAnsiblePlaybook ==
    /\ pc = "execute_ansible_playbooks"
    /\ Len(invoked) < Len(deployment_order)
    /\ LET module == deployment_order[Len(invoked) + 1]
       IN  /\ playbook' = get_module_playbook(module, configuration_variables)
           /\ inventory' = get_module_inventory(playbook')
           /\ invoked' = Append(invoked, module)
    /\ pc' = "ansible_runner.run"
    /\ UNCHANGED <<all_modules, module_choices, desired_module_names, desired_modules,
                   dependency_graph, deployment_order, order_calls, roles, link_idx,
                   returned, error>>
    /\ UNCHANGED runVars
    /\ UNCHANGED main_log
    /\ UNCHANGED configVars

\* the engine run ends and AnsibleWrapper.run classifies what it printed: it
\* returns, or raises and ends execute_ansible_playbooks
AnsibleRunnerRun ==
    /\ pc = "ansible_runner.run"
    /\ \E out \in EngineOutputs :
            LET module == invoked[Len(invoked)]
                r == run(module, out.stdout, out.rc)
            IN  /\ pc' = AfterRun(r)
                /\ error' = IF r.raised # NoError THEN r.raised ELSE error
                /\ returned' = IF r.raised # NoError THEN returned
                               ELSE Append(returned, module)
    /\ UNCHANGED <<all_modules, module_choices, desired_module_names, desired_modules,
                   dependency_graph, deployment_order, order_calls, roles, link_idx,
                   invoked>>
    /\ UNCHANGED runVars
    /\ UNCHANGED flowVars
    /\ UNCHANGED configVars

\* execute_ansible_playbooks returns: every module of the order has run
DeployReturns ==
    /\ pc = "execute_ansible_playbooks"
    /\ Len(invoked) = Len(deployment_order)
    /\ pc' = "done"
    /\ UNCHANGED <<all_modules, module_choices, desired_module_names, desired_modules,
                   dependency_graph, deployment_order, order_calls, roles, link_idx,
                   invoked, returned, error>>
    /\ UNCHANGED runVars
    /\ UNCHANGED flowVars
    /\ UNCHANGED configVars

Next ==
    \/ GetDesiredModules
    \/ ProcessModules
    \/ OrderDesiredModules
    \/ LinkModuleRoles
    \/ GetDeploymentOrder
    \/ GatherConfigurationVariables
    \/ ExecuteAnsiblePlaybook
    \/ AnsibleRunnerRun
    \/ DeployReturns

Spec == Init /\ [][Next]_vars

----------------------------------------------------------------------------
(* SpecRun: one call of AnsibleWrapper.run *)

PlanIdle ==
    /\ all_modules = [n \in Names |-> <<PyNone>>]
    /\ module_choices = <<>>
    /\ desired_module_names = <<>>
    /\ desired_modules = <<>>
    /\ dependency_graph = EmptyGraph
    /\ deployment_order = NotComputed
    /\ order_calls = 0
    /\ roles = <<>>
    /\ link_idx = 0
    /\ invoked = <<>>
    /\ returned = <<>>
    /\ error = NoError
    /\ pc = "idle"

InitRun ==
    /\ PlanIdle
    /\ ConfigIdle
    /\ FlowIdle
    /\ stdout \in SeqsUpTo(Lines, MaxLines)
    /\ rc \in ReturnCodes
    /\ self_module_name \in Names
    /\ cleaned_stdout = <<>>
    /\ printed = <<>>
    /\ examined = <<>>
    /\ event_data = <<>>
    /\ raised = NoError
    /\ rpc = "clean_stdout"

\* the position in the engine's output of line entry of the cleaned output
OutputPosition(entry) == clean_stdout(self_module_name, stdout).kept[entry]
Reads(phase, entries) ==
    [i \in 1..Len(entries) |-> Read(phase, OutputPosition(entries[i]))]

\* construct_json_data: clean_stdout
CleanStdout ==
    /\ rpc = "clean_stdout"
    /\ LET c == clean_stdout(self_module_name, stdout)
       IN  /\ cleaned_stdout' = c.cleaned
           /\ printed' = c.printed
           /\ examined' = c.examined
           /\ raised' = c.raised
           /\ rpc' = IF c.raised # NoError THEN "raised"
                     ELSE IF rc # 0 THEN "locate_execution_errors"
                     ELSE "parse_json_data"
    /\ UNCHANGED <<stdout, rc, event_data, self_module_name>>
    /\ UNCHANGED planVars
    /\ UNCHANGED flowVars
    /\ UNCHANGED configVars

\* construct_json_data with a non-zero rc: locate_execution_errors, and the
\* raise of AnsibleRunTimeExecution with what it returned
LocateExecutionErrors ==
    /\ rpc = "locate_execution_errors"
    /\ LET l == locate_execution_errors(self_module_name, cleaned_stdout)
       IN  /\ raised' = [kind |-> "AnsibleRunTimeExecution", message |-> l.message]
           /\ examined' = examined \o Reads("locate", l.reads)
    /\ rpc' = "raised"
    /\ UNCHANGED <<stdout, rc, cleaned_stdout, printed, event_data, self_module_name>>
    /\ UNCHANGED planVars
    /\ UNCHANGED flowVars
    /\ UNCHANGED configVars

\* construct_json_data with rc 0 (the lines joined and loaded), then
\* parse_json_data
ParseJsonData ==
    /\ rpc = "parse_json_data"
    /\ LET p == parse_json_data(event_data, JoinAndLoad(cleaned_stdout))
       IN  /\ event_data' = p.event_data
           /\ raised' = p.raised
           /\ examined' = examined \o Reads("parse", p.reads)
           /\ rpc' = IF p.raised # NoError THEN "raised" ELSE "returned"
    /\ UNCHANGED <<stdout, rc, cleaned_stdout, printed, self_module_name>>
    /\ UNCHANGED planVars
    /\ UNCHANGED flowVars
    /\ UNCHANGED configVars

NextRun ==
    \/ CleanStdout
    \/ LocateExecutionErrors
    \/ ParseJsonData

SpecRun == InitRun /\ [][NextRun]_vars

----------------------------------------------------------------------------
(* SpecInventory: one call of get_module_inventory *)

\* the rendered playbooks: up to MaxPlays plays, each on some host pattern
Playbooks ==
    {[k \in 1..Len(hosts) |-> WithVars([hosts |-> hosts[k]], NoVariables)] :
        hosts \in SeqsUpTo(HostPatterns, MaxPlays)}

InitInventory ==
    /\ PlanIdle
    /\ RunIdle
    /\ ConfigIdle
    /\ playbook \in Playbooks
    /\ inventory = NoInventory
    /\ main_log = <<>>

GetModuleInventory ==
    /\ inventory = NoInventory
    /\ inventory' = get_module_inventory(playbook)
    /\ UNCHANGED <<playbook, main_log>>
    /\ UNCHANGED planVars
    /\ UNCHANGED runVars
    /\ UNCHANGED configVars

NextInventory == GetModuleInventory

SpecInventory == InitInventory /\ [][NextInventory]_vars

----------------------------------------------------------------------------
(* SpecConfig: build_configuration_file and validate_configuration_file calls *)
(* of one HomeLabInABox object, and the user's edits of configuration.yaml   *)
(* between them                                                              *)

\* the catalogs of SpecConfig: no dependencies; A needs B; A needs B needs C
\* and C declares an empty list; A and B need each other
ConfigCatalogs ==
    {[n \in Names |-> <<PyNone>>],
     [n \in Names |-> IF n = "A" THEN <<"B">> ELSE <<PyNone>>],
     [n \in Names |-> CASE n = "A" -> <<"B">> [] n = "B" -> <<"C">> [] OTHER -> <<>>],
     [n \in Names |-> CASE n = "A" -> <<"B">> [] n = "B" -> <<"A">> [] OTHER -> <<NoneString>>]}

\* the values the user types into configuration.yaml
EditValues == {Value("int", "8080"), Value("str", "ten")}

RemoveAt(seq, j) == SubSeq(seq, 1, j - 1) \o SubSeq(seq, j + 1, Len(seq))

\* entries j and j + 1 of seq in each other's place
SwapAt(seq, j) ==
    [k \in 1..Len(seq) |-> IF k = j THEN seq[j + 1] ELSE IF k = j + 1 THEN seq[j] ELSE seq[k]]

\* the documents one edit of entry j of block i can leave: another value, a
\* mistyped name, the entry removed, or the entry moved behind the next one
Edited(doc, i, j) ==
    {[doc EXCEPT !.Modules[i].Required_Variables[j].Value = v] :
        v \in EditValues \ {doc.Modules[i].Required_Variables[j].Value}}
    \cup {[doc EXCEPT !.Modules[i].Required_Variables[j].Name = <<"typo">>]}
    \cup {[doc EXCEPT !.Modules[i].Required_Variables = RemoveAt(@, j)]}
    \cup {[doc EXCEPT !.Modules[i].Required_Variables = SwapAt(@, j)] :
            k \in {j} \cap 1..(Len(doc.Modules[i].Required_Variables) - 1)}

InitConfig ==
    /\ all_modules \in ConfigCatalogs
    /\ module_choices \in SeqsUpTo(Names, MaxWanted)
    /\ desired_module_names = <<>>
    /\ desired_modules = <<>>
    /\ dependency_graph = EmptyGraph
    /\ deployment_order = NotComputed
    /\ order_calls = 0
    /\ roles = <<>>
    /\ link_idx = 0
    /\ invoked = <<>>
    /\ returned = <<>>
    /\ error = NoError
    /\ pc = "ready"
    /\ RunIdle
    /\ ConfigIdle
    /\ FlowIdle

\* what a call leaves of load_desired_modules' work
Loaded(was_called) ==
    LET l == load_desired_modules(all_modules, module_choices)
    IN  IF was_called
        THEN /\ desired_module_names' = l.names
             /\ desired_modules' = l.modules
             /\ dependency_graph' = l.graph
        ELSE UNCHANGED <<desired_module_names, desired_modules, dependency_graph>>

\* one call of build_configuration_file
BuildConfigurationFile ==
    /\ pc = "ready"
    /\ calls < MaxCalls
    /\ \E refresh \in BOOLEAN :
        LET b == build_configuration_file(refresh, configuration_yaml, configuration,
                                          all_modules, module_choices)
        IN  /\ configuration_yaml' = b.yaml
            /\ configuration' = b.configuration
            /\ Loaded(b.loaded)
            /\ \E e \in b.raised :
                /\ error' = e
                /\ pc' = IF e # NoError THEN "failed" ELSE "ready"
                /\ last' = [op |-> "build", refresh |-> refresh,
                            yaml |-> configuration_yaml,
                            result |-> IF e # NoError THEN "raised" ELSE "returned"]
    /\ calls' = calls + 1
    /\ UNCHANGED <<all_modules, module_choices, deployment_order, order_calls, roles,
                   link_idx, invoked, returned>>
    /\ UNCHANGED <<configuration_variables, edits>>
    /\ UNCHANGED runVars
    /\ UNCHANGED flowVars

\* one call of validate_configuration_file
ValidateConfigurationFile ==
    /\ pc = "ready"
    /\ calls < MaxCalls
    /\ LET v == validate_configuration_file(configuration_yaml, configuration,
                                            all_modules, module_choices)
       IN  /\ configuration_yaml' = v.yaml
           /\ configuration' = v.configuration
           /\ Loaded(TRUE)
           /\ \E e \in v.raised :
                /\ error' = e
                /\ pc' = IF e # NoError THEN "failed" ELSE "ready"
                /\ last' = [op |-> "validate", yaml |-> configuration_yaml,
                            previous |-> [op |-> last.op,
                                          fresh |-> last.op = "build" /\ ~last.refresh],
                            result |-> IF e # NoError THEN "raised"
                                       ELSE IF v.valid THEN "True" ELSE "False"]
    /\ calls' = calls + 1
    /\ UNCHANGED <<all_modules, module_choices, deployment_order, order_calls, roles,
                   link_idx, invoked, returned>>
    /\ UNCHANGED <<configuration_variables, edits>>
    /\ UNCHANGED runVars
    /\ UNCHANGED flowVars

\* the user edits configuration.yaml (vim, between two calls)
EditConfigurationFile ==
    /\ pc = "ready"
    /\ configuration_yaml # NoFile
    /\ edits < MaxEdits
    /\ \E i \in 1..Len(configuration_yaml.Modules) :
        \E j \in 1..Len(configuration_yaml.Modules[i].Required_Variables) :
            configuration_yaml' \in Edited(configuration_yaml, i, j)
    /\ edits' = edits + 1
    /\ last' = [op |-> "edit"]
    /\ UNCHANGED planVars
    /\ UNCHANGED <<configuration, configuration_variables, calls>>
    /\ UNCHANGED runVars
    /\ UNCHANGED flowVars

NextConfig ==
    \/ BuildConfigurationFile
    \/ ValidateConfigurationFile
    \/ EditConfigurationFile

SpecConfig == InitConfig /\ [][NextConfig]_vars

----------------------------------------------------------------------------
(* SpecMain: one call of main *)

\* a name that no spec.yaml of the catalog has
MissingName == "Z"

\* wanted_modules as gather_modules writes it into a new module_choices.yaml
DefaultWanted == <<"Put your desired modules here", "", "">>

\* module_choices.yaml does not exist
NoChoicesFile == <<"<no module_choices.yaml>">>

\* the catalogs of SpecMain: A depends on B; A depends on a name that is not
\* in the catalog; no module depends on another
MainCatalogs ==
    {[n \in Names |-> IF n = "A" THEN <<"B">> ELSE <<PyNone>>],
     [n \in Names |-> IF n = "A" THEN <<MissingName>> ELSE <<PyNone>>],
     [n \in Names |-> <<NoneString>>]}

\* wanted_modules as the user leaves it in vim: names of the catalog, a name
\* that is not in it, entries left blank
MainSelections == SeqsUpTo({"A", "B", MissingName, ""}, MaxWanted)

\* the key of the subscript at line 364: the module's name, a str
WantedKey(module) == [type |-> "str", value |-> module]

\* list.__setitem__: an int indexes the list, any other key raises TypeError
list_setitem(list, key, value) ==
    IF key.type = "int"
    THEN [raised |-> NoError, list |-> [list EXCEPT ![key.value + 1] = value]]
    ELSE [raised |-> [kind |-> "TypeError"], list |-> list]

\* the loop of validate_modules over desired_module_names, from entry k on
RECURSIVE ValidateNames(_, _, _, _, _)
ValidateNames(catalog, names, k, valid, wanted) ==
    IF k > Len(names) THEN [raised |-> NoError, valid |-> valid, wanted |-> wanted]
    ELSE LET module == names[k]
             a_valid_module_choice == \E x \in DOMAIN catalog : x = module
         IN  IF module = "" \/ a_valid_module_choice
             THEN ValidateNames(catalog, names, k + 1, valid, wanted)
             ELSE LET set == list_setitem(wanted, WantedKey(module),
                                          module \o " <--- invalid")
                  IN  IF set.raised # NoError
                      THEN [raised |-> set.raised, valid |-> FALSE, wanted |-> wanted]
                      ELSE ValidateNames(catalog, names, k + 1, FALSE, set.list)

\* validate_modules: the exception raised, what it returns, and
\* wanted_modules of module_choices.yaml afterwards
validate_modules(catalog, choices) ==
    LET v == ValidateNames(catalog, get_desired_modules(choices), 1, TRUE, choices)
    IN  [raised |-> v.raised, valid |-> v.valid,
         file |-> IF v.raised = NoError /\ ~v.valid THEN v.wanted ELSE choices]

\* faulty variant: main goes on to the next step whatever the call gave
MainGoesOn(outcome, on_true, loop) == on_true

\* where main goes on after a validate call: out of the while loop when it
\* returned True, to vim and the call again when it returned False, and out
\* of main when it raised
MainAfter(outcome, on_true, loop) ==
    IF outcome = "True" THEN on_true
    ELSE IF outcome = "False" THEN loop
    ELSE "failed"

Outcome(raised_error, valid) ==
    IF raised_error # NoError THEN "raised" ELSE IF valid THEN "True" ELSE "False"

\* the positions of deploy_homelab
DeployPositions ==
    {"get_desired_modules", "process_modules", "order_desired_modules",
     "link_module_roles", "gather_configuration_variables",
     "execute_ansible_playbooks", "ansible_runner.run", "done"}

Logged(call, result) == [call |-> call, result |-> result, wanted |-> module_choices]

InitMain ==
    /\ all_modules \in MainCatalogs
    /\ module_choices \in MainSelections \cup {NoChoicesFile}
    /\ desired_module_names = <<>>
    /\ desired_modules = <<>>
    /\ dependency_graph = EmptyGraph
    /\ deployment_order = NotComputed
    /\ order_calls = 0
    /\ roles = <<>>
    /\ link_idx = 0
    /\ invoked = <<>>
    /\ returned = <<>>
    /\ error = NoError
    /\ pc = "module_choices"
    /\ RunIdle
    /\ configuration_yaml \in DeployDocuments
    /\ configuration = EmptyDict
    /\ configuration_variables = NoVariables
    /\ calls = 0
    /\ edits = 0
    /\ last = NoCall
    /\ FlowIdle

\* main, the module choices logic: a new file is gathered and edited; an
\* existing one is edited when the user answers y
MainModuleChoices ==
    /\ pc = "module_choices"
    /\ IF module_choices = NoChoicesFile
       THEN /\ module_choices' = DefaultWanted
            /\ pc' = "vim module_choices.yaml"
       ELSE /\ module_choices' = module_choices
            /\ \E choice \in {"y", "n"} :
                    pc' = IF choice = "y" THEN "vim module_choices.yaml"
                          ELSE "validate_modules"
    /\ UNCHANGED <<all_modules, desired_module_names, desired_modules, dependency_graph,
                   deployment_order, order_calls, roles, link_idx, invoked, returned, error>>
    /\ UNCHANGED runVars
    /\ UNCHANGED flowVars
    /\ UNCHANGED configVars

\* subprocess.call(["vim", "module_choices.yaml"]), before the validation
\* loop and in it
MainEditModuleChoices ==
    /\ pc = "vim module_choices.yaml"
    /\ module_choices' \in MainSelections \cup {module_choices}
    /\ pc' = "validate_modules"
    /\ UNCHANGED <<all_modules, desired_module_names, desired_modules, dependency_graph,
                   deployment_order, order_calls, roles, link_idx, invoked, returned, error>>
    /\ UNCHANGED runVars
    /\ UNCHANGED flowVars
    /\ UNCHANGED configVars

\* main, the module validation loop: one call of validate_modules
MainValidateModules ==
    /\ pc = "validate_modules"
    /\ LET v == validate_modules(all_modules, module_choices)
           outcome == Outcome(v.raised, v.valid)
       IN  /\ module_choices' = v.file
           /\ desired_module_names' = get_desired_modules(module_choices)
           /\ error' = v.raised
           /\ main_log' = Append(main_log, Logged("validate_modules", outcome))
           /\ pc' = MainAfter(outcome, "configuration", "vim module_choices.yaml")
    /\ UNCHANGED <<all_modules, desired_modules, dependency_graph, deployment_order,
                   order_calls, roles, link_idx, invoked, returned>>
    /\ UNCHANGED runVars
    /\ UNCHANGED <<playbook, inventory>>
    /\ UNCHANGED configVars

\* main, the configuration logic: a new file is built and edited; an existing
\* one is refreshed and edited when the user answers y
MainConfigurationLogic ==
    /\ pc = "configuration"
    /\ \E choice \in {"y", "n"} :
        IF configuration_yaml # NoFile /\ choice = "n"
        THEN /\ pc' = "validate_configuration_file"
             /\ UNCHANGED <<configuration_yaml, configuration, desired_module_names,
                            desired_modules, dependency_graph, error>>
        ELSE LET b == build_configuration_file(configuration_yaml # NoFile,
                                               configuration_yaml, configuration,
                                               all_modules, module_choices)
             IN  /\ configuration_yaml' = b.yaml
                 /\ configuration' = b.configuration
                 /\ Loaded(b.loaded)
                 /\ \E e \in b.raised :
                        /\ error' = e
                        /\ pc' = IF e # NoError THEN "failed" ELSE "vim configuration.yaml"
    /\ UNCHANGED <<all_modules, module_choices, deployment_order, order_calls, roles,
                   link_idx, invoked, returned>>
    /\ UNCHANGED <<configuration_variables, calls, edits, last>>
    /\ UNCHANGED runVars
    /\ UNCHANGED flowVars

\* the documents the user can leave in vim: the one found, or it with one
\* entry edited
EditedOnce(doc) ==
    IF doc = NoFile THEN {doc}
    ELSE {doc} \cup UNION {UNION {Edited(doc, i, j) :
                                    j \in 1..Len(doc.Modules[i].Required_Variables)} :
                            i \in 1..Len(doc.Modules)}

\* subprocess.call(["vim", "configuration.yaml"]), before the validation
\* loop and in it
MainEditConfiguration ==
    /\ pc = "vim configuration.yaml"
    /\ configuration_yaml' \in EditedOnce(configuration_yaml)
    /\ pc' = "validate_configuration_file"
    /\ UNCHANGED <<all_modules, module_choices, desired_module_names, desired_modules,
                   dependency_graph, deployment_order, order_calls, roles, link_idx,
                   invoked, returned, error>>
    /\ UNCHANGED <<configuration, configuration_variables, calls, edits, last>>
    /\ UNCHANGED runVars
    /\ UNCHANGED flowVars

\* main, the configuration validation loop: one call of
\* validate_configuration_file; deploy_homelab follows when it returned True
MainValidateConfiguration ==
    /\ pc = "validate_configuration_file"
    /\ LET v == validate_configuration_file(configuration_yaml, configuration,
                                            all_modules, module_choices)
       IN  /\ configuration_yaml' = v.yaml
           /\ configuration' = v.configuration
           /\ Loaded(TRUE)
           /\ \E e \in v.raised :
                LET outcome == Outcome(e, v.valid)
                IN  /\ error' = e
                    /\ main_log' = Append(main_log,
                                          Logged("validate_configuration_file", outcome))
                    /\ pc' = MainAfter(outcome, "get_desired_modules",
                                       "vim configuration.yaml")
    /\ UNCHANGED <<all_modules, module_choices, deployment_order, order_calls, roles,
                   link_idx, invoked, returned>>
    /\ UNCHANGED <<configuration_variables, calls, edits, last>>
    /\ UNCHANGED runVars
    /\ UNCHANGED <<playbook, inventory>>

NextMain ==
    \/ MainModuleChoices
    \/ MainEditModuleChoices
    \/ MainValidateModules
    \/ MainConfigurationLogic
    \/ MainEditConfiguration
    \/ MainValidateConfiguration
    \/ GetDesiredModules
    \/ ProcessModules
    \/ OrderDesiredModules
    \/ LinkModuleRoles
    \/ GetDeploymentOrder
    \/ GatherConfigurationVariables
    \/ ExecuteAnsiblePlaybook
    \/ AnsibleRunnerRun
    \/ DeployReturns

SpecMain == InitMain /\ [][NextMain]_vars

----------------------------------------------------------------------------
(* Properties of planning (Spec) *)

\* the dependencies a declaration makes the planner use
DeclaredDependencies(m) ==
    IF all_modules[m] = <<>> \/ IsSentinel(all_modules[m]) THEN {} ELSE Range(all_modules[m])

RECURSIVE DependencyClosure(_)
DependencyClosure(S) ==
    LET T == S \cup UNION {DeclaredDependencies(m) : m \in S}
    IN  IF T = S THEN S ELSE DependencyClosure(T)

\* the dependency graph of the fully expanded selection
ExpandedNodes == DependencyClosure(Range(get_desired_modules(module_choices)))
ExpandedEdges == {<<d, m>> \in ExpandedNodes \X ExpandedNodes : d \in DeclaredDependencies(m)}
ExpandedCycleClasses ==
    {Rotations(s) : s \in
        {s \in SeqsUpTo(ExpandedNodes, Cardinality(ExpandedNodes)) :
            /\ Len(s) >= 1
            /\ IsDistinct(s)
            /\ \A i \in 1..(Len(s) - 1) : <<s[i], s[i + 1]>> \in ExpandedEdges
            /\ <<s[Len(s)], s[1]>> \in ExpandedEdges}}

ProcessModulesCalled == pc \notin {"get_desired_modules", "process_modules"}
\* process_modules returned without raising
ExpansionDone == pc = "order_desired_modules" \/ order_calls >= 1
PlanningFailed ==
    pc = "failed" /\ error.kind \in {"ModuleConfigurationError", "IndexError", "TypeError"}
CycleErrorRaised == pc = "failed" /\ error.kind = "ModuleConfigurationError"

Before(x, y, s) ==
    \E i, j \in 1..Len(s) : i < j /\ s[i] = x /\ s[j] = y

\* C1: after process_modules the final selection is closed under declared
\* dependencies at every depth, and expanding it again adds no module
C1_ExpansionIsFixpoint ==
    ExpansionDone =>
        /\ \A m \in Range(desired_module_names) :
                DeclaredDependencies(m) \subseteq Range(desired_module_names)
        /\ DependencyClosure(Range(desired_module_names)) = Range(desired_module_names)
        /\ process_modules(all_modules, desired_module_names).names = desired_module_names

\* C1 witness: expansion added a dependency and that dependency's dependency
C1_Witness ==
    /\ pc = "order_desired_modules"
    /\ Len(module_choices) = 1
    /\ Len(desired_module_names) = 3
    /\ \E m \in Names : DeclaredDependencies(m) # {} /\ module_choices[1] \notin DeclaredDependencies(m)
                        /\ m # module_choices[1]

\* C2: the deployment order of an acyclic graph built by resolution holds
\* every node of the graph exactly once, each dependency before its dependent
C2_OrderIsTopological ==
    deployment_order # NotComputed =>
        /\ Range(deployment_order) = Range(dependency_graph.nodes)
        /\ Len(deployment_order) = Len(dependency_graph.nodes)
        /\ IsDistinct(deployment_order)
        /\ \A i \in 1..Len(dependency_graph.edges) :
                Before(dependency_graph.edges[i][1], dependency_graph.edges[i][2],
                       deployment_order)
        /\ \A m \in Range(desired_module_names) : \A d \in DeclaredDependencies(m) :
                Before(d, m, deployment_order)

\* C2 witness: an order of three modules over a graph with two edges
C2_Witness ==
    /\ deployment_order # NotComputed
    /\ Len(deployment_order) = 3
    /\ Len(dependency_graph.edges) >= 2
    /\ deployment_order # dependency_graph.nodes

\* C3: a selection whose expanded dependency graph has a cycle makes planning
\* fail with the cycle error, no order computed, no role linked, no module run
C3_CycleFailsPlanning ==
    (ProcessModulesCalled /\ ExpandedCycleClasses # {}) =>
        /\ CycleErrorRaised
        /\ order_calls = 0
        /\ deployment_order = NotComputed
        /\ roles = <<>>
        /\ invoked = <<>>

\* what holds of cycles: a cyclic graph is never left standing, nothing runs
\* on a cyclic expansion, and the cycle error is the outcome unless an empty
\* declaration (IndexError, line 408) ended the loop first
CycleNeverPlanned ==
    /\ ~is_directed_acyclic_graph(dependency_graph) => CycleErrorRaised
    /\ (ProcessModulesCalled /\ ExpandedCycleClasses # {}) =>
            /\ PlanningFailed
            /\ error.kind \in {"ModuleConfigurationError", "IndexError"}
            /\ order_calls = 0 /\ deployment_order = NotComputed
            /\ roles = <<>> /\ invoked = <<>>
    /\ (ProcessModulesCalled /\ ExpandedCycleClasses # {}
            /\ \A m \in ExpandedNodes : all_modules[m] # <<>>) => CycleErrorRaised

\* C4 as claimed: the cycle error lists every simple cycle of the dependency
\* graph of the fully expanded selection
C4_ListsCyclesOfExpansion ==
    CycleErrorRaised => {Rotations(c) : c \in error.cycles} = ExpandedCycleClasses

LastEdge == dependency_graph.edges[Len(dependency_graph.edges)]
OnCycle(e, c) ==
    \E i \in 1..Len(c) : c[i] = e[1] /\ c[(i % Len(c)) + 1] = e[2]

\* C4 amended: the cycle error lists, each once, every simple cycle of the
\* graph as built when the check failed; each runs through the edge inserted
\* last, and each is a cycle of the expanded selection
C4_ListsCyclesOfBuiltGraph ==
    CycleErrorRaised =>
        /\ {Rotations(c) : c \in error.cycles} = SimpleCycleClasses(dependency_graph)
        /\ Cardinality(error.cycles) = Cardinality(SimpleCycleClasses(dependency_graph))
        /\ error.cycles # {}
        /\ \A c \in error.cycles : OnCycle(LastEdge, c)
        /\ {Rotations(c) : c \in error.cycles} \subseteq ExpandedCycleClasses

\* C4 witness: a cycle error that lists two cycles
C4_Witness ==
    /\ CycleErrorRaised
    /\ Cardinality(error.cycles) = 2

\* the catalog {A deps [B], B deps [A]} with a selection of A and B
TwoModuleCycle ==
    /\ all_modules["A"] = <<"B">>
    /\ all_modules["B"] = <<"A">>
    /\ module_choices # <<>>
    /\ Range(module_choices) \subseteq {"A", "B"}

\* C5 as claimed: the cycle of A and B is reported as the closed chain
\* A -> B -> A
C5_ClosedChainReported ==
    (TwoModuleCycle /\ ProcessModulesCalled) =>
        /\ CycleErrorRaised
        /\ error.cycles = {<<"A", "B", "A">>}

\* C5 amended: the cycle of A and B is reported as one chain naming A and B
\* once each, A -> B or B -> A, the first module not repeated at the end
C5_OpenChainReported ==
    (TwoModuleCycle /\ ProcessModulesCalled) =>
        /\ CycleErrorRaised
        /\ error.cycles \in {{<<"A", "B">>}, {<<"B", "A">>}}

\* C5 witness: the cycle error for the selection of B alone
C5_Witness ==
    /\ TwoModuleCycle
    /\ module_choices = <<"B">>
    /\ CycleErrorRaised

NoDependenciesDeclared(m) == all_modules[m] = <<>> \/ IsSentinel(all_modules[m])

\* C6: a module with an empty or sentinel declaration brings no edge and does
\* not fail resolution; A deps [B], B deps [C], C deps [] with A selected is
\* planned in the order C, B, A
C6_EmptyDeclarationPlanned ==
    /\ ProcessModulesCalled =>
            /\ \A m \in Names : NoDependenciesDeclared(m) =>
                    \A i \in 1..Len(dependency_graph.edges) : dependency_graph.edges[i][2] # m
            /\ error.kind # "IndexError"
    /\ (/\ all_modules = [n \in Names |->
                            CASE n = "A" -> <<"B">> [] n = "B" -> <<"C">> [] OTHER -> <<>>]
        /\ module_choices = <<"A">>
        /\ ProcessModulesCalled)
        => /\ ~PlanningFailed
           /\ deployment_order # NotComputed => deployment_order = <<"C", "B", "A">>

\* the same catalog with the sentinel for C is planned in the order C, B, A
SentinelDeclarationPlanned ==
    (/\ all_modules["A"] = <<"B">> /\ all_modules["B"] = <<"C">>
     /\ all_modules["C"] # <<>> /\ IsSentinel(all_modules["C"])
     /\ module_choices = <<"A">>
     /\ ProcessModulesCalled)
        => /\ ~PlanningFailed
           /\ dependency_graph.edges = <<<<"B", "A">>, <<"C", "B">>>>
           /\ deployment_order # NotComputed => deployment_order = <<"C", "B", "A">>

----------------------------------------------------------------------------
(* Properties of one AnsibleWrapper.run (SpecRun) *)

RunEnded == rpc \in {"raised", "returned"}
ExecutionErrorRaised == rpc = "raised" /\ raised.kind = "AnsibleRunTimeExecution"

FailedPositions == {i \in 1..Len(stdout) : stdout[i] \in FailedEvents}
UnreachablePositions == {i \in 1..Len(stdout) : stdout[i] = UnreachableEvent}
First(S) == CHOOSE k \in S : \A j \in S : k <= j

\* the message names the module, the event's task, action, host and address
\* ('Unknown' for one the event lacks) and the event's failure text
Attributes(message, event) ==
    LET expected(key) ==
            IF key \in DOMAIN event.event_data THEN event.event_data[key] ELSE "Unknown"
    IN  /\ message # NoneMessage
        /\ message.module = self_module_name
        /\ message.task_name = expected("task")
        /\ message.task_action = expected("task_action")
        /\ message.task_host = expected("host")
        /\ message.task_host_ip = expected("remote_addr")
        /\ message.text = event.stdout

\* cleaning raises: some line is neither JSON nor a warning, or the output
\* starts with a warning and does not end with a JSON line
CleaningRaises ==
    \/ \E i \in 1..Len(stdout) : stdout[i] = JunkLine
    \/ stdout # <<>> /\ stdout[1] = WarningLine /\ stdout[Len(stdout)].syntax # "json"

C8_UnreachableAttributed ==
    (ExecutionErrorRaised /\ FailedPositions = {} /\ UnreachablePositions # {}) =>
        Attributes(raised.message, stdout[First(UnreachablePositions)].data)

\* C9: a non-zero rc without any failed or unreachable event raises an error
\* of another kind than the execution error of a task failure, and that error
\* carries no task context
C9_UnexplainedFailureDistinct ==
    (RunEnded /\ rc # 0 /\ FailedPositions = {} /\ UnreachablePositions = {}) =>
        /\ rpc = "raised"
        /\ raised.kind # "AnsibleRunTimeExecution"
        /\ "message" \in DOMAIN raised => raised.message = NoneMessage

\* the ok events that name task, action, host and address
CompleteOkEvents == {OkEvent1, OkEvent2, OkEvent3}
OnlyOkAndWarnings ==
    \A i \in 1..Len(stdout) : stdout[i] \in CompleteOkEvents \cup {WarningLine}
OkEventsOf(host) ==
    SelectSeq(stdout, LAMBDA l : l \in CompleteOkEvents /\ l.data.event_data.host = host)
\* the report holds one task result per ok event, by host, in emission order
ReportComplete ==
    /\ DOMAIN event_data =
            {stdout[i].data.event_data.host : i \in {j \in 1..Len(stdout) : stdout[j] \in CompleteOkEvents}}
    /\ \A h \in DOMAIN event_data :
            /\ Len(event_data[h]) = Len(OkEventsOf(h))
            /\ \A i \in 1..Len(event_data[h]) :
                    /\ event_data[h][i].task_name = OkEventsOf(h)[i].data.event_data.task
                    /\ event_data[h][i].hostname = h
                    /\ event_data[h][i].changed = OkEventsOf(h)[i].data.event_data.res.changed

\* C10: an output of ok events and warning lines only, in any order, a
\* warning as first or only line included, with rc 0: nothing is raised and
\* the report holds one task result per ok event, by host, in emission order
C10_OkAndWarningsReported ==
    (RunEnded /\ rc = 0 /\ OnlyOkAndWarnings) =>
        /\ rpc = "returned"
        /\ raised = NoError
        /\ ReportComplete

\* the same holds of every such output but those that start and end with a
\* warning line
OkAndWarningsReportedUnlessWarningFirstAndLast ==
    (RunEnded /\ rc = 0 /\ OnlyOkAndWarnings
        /\ ~(stdout # <<>> /\ stdout[1] = WarningLine /\ stdout[Len(stdout)] = WarningLine)) =>
        /\ rpc = "returned"
        /\ raised = NoError
        /\ ReportComplete

----------------------------------------------------------------------------
(* Properties of the warnings and of the run report (SpecRun) *)

CleaningEnded == rpc # "clean_stdout"
NoJunk == \A i \in 1..Len(stdout) : stdout[i] # JunkLine
WarningPositions == {i \in 1..Len(stdout) : stdout[i] = WarningLine}
\* the position of the k-th warning line of the output
NthWarning(k) ==
    CHOOSE p \in WarningPositions :
        Cardinality({q \in WarningPositions : q <= p}) = k

\* task, action, host and address of an event, 'Unknown' for one it lacks
ContextOf(event) ==
    LET field(key) ==
            IF "event_data" \in DOMAIN event /\ key \in DOMAIN event.event_data
            THEN event.event_data[key] ELSE "Unknown"
    IN  [task_name |-> field("task"), task_action |-> field("task_action"),
         task_host |-> field("host"), task_host_ip |-> field("remote_addr")]

\* C18: every warning line is reported and none makes cleaning raise; one
\* that follows an event is reported with the task, action, host and address
\* of that event, and one that is the first line of the output is reported
\* as undetermined, with no other line read for it
C18_WarningAttributedToPrecedingEvent ==
    (CleaningEnded /\ NoJunk) =>
        /\ raised.kind # "JSONDecodeError"
        /\ Len(printed) = Cardinality(WarningPositions)
        /\ \A k \in 1..Len(printed) :
            LET p == NthWarning(k)
            IN  /\ p = 1 =>
                    /\ printed[k].report = "undetermined warning"
                    /\ \A q \in 1..Len(stdout) : Read("previous", q) \notin Range(examined)
                /\ (p > 1 /\ stdout[p - 1].syntax = "json") =>
                    /\ printed[k].report = "warning"
                    /\ printed[k].context = ContextOf(stdout[p - 1].data)

\* what the code does: a warning after the first line is reported as
\* undetermined whatever precedes it; for a warning on the first line the
\* last line of the output is read: the warning is reported with that line's
\* context, or JSONDecodeError is raised when that line is not JSON
WarningAttributedToLastLineWhenFirst ==
    (CleaningEnded /\ NoJunk) =>
        /\ \A k \in 1..Len(printed) :
                IF NthWarning(k) = 1
                THEN /\ printed[k].report = "warning"
                     /\ printed[k].context = ContextOf(stdout[Len(stdout)].data)
                ELSE printed[k].report = "undetermined warning"
        /\ raised.kind = "JSONDecodeError" <=>
                (1 \in WarningPositions /\ stdout[Len(stdout)].syntax # "json")

OkWithoutAddress == {i \in 1..Len(stdout) : stdout[i] = OkEventNoAddr}

\* C19: an ok event that lacks the host address does not end the building of
\* the report: the run returns and the report holds a task result for the
\* event with 'Unknown' as its address
C19_MissingFieldBecomesUnknown ==
    (RunEnded /\ rc = 0 /\ ~CleaningRaises /\ OkWithoutAddress # {}
        /\ \A i \in 1..Len(stdout) : stdout[i] # FailedEventNoAddr) =>
        /\ rpc = "returned"
        /\ raised = NoError
        /\ "h1" \in DOMAIN event_data
        /\ \E i \in 1..Len(event_data["h1"]) :
                /\ event_data["h1"][i].task_name = "t2"
                /\ event_data["h1"][i].ip_address = "Unknown"

\* what the code does: KeyError for the missing key, and no report
MissingFieldRaisesKeyError ==
    (RunEnded /\ rc = 0 /\ ~CleaningRaises /\ OkWithoutAddress # {}) =>
        /\ rpc = "raised"
        /\ raised = [kind |-> "KeyError", key |-> "remote_addr"]

\* the keys the report leaves out of a result payload
DenyList ==
    {"warnings", "deprecations", "_ansible_verbose_override", "_ansible_no_log",
     "_ansible_verbose_always", "changed"}

\* the events of the output that carry a result payload for the host
PayloadEvents(host) ==
    SelectSeq(stdout, LAMBDA l :
        /\ l.syntax = "json"
        /\ "event_data" \in DOMAIN l.data
        /\ "res" \in DOMAIN l.data.event_data
        /\ "host" \in DOMAIN l.data.event_data
        /\ l.data.event_data.host = host)

\* C20: in the report of a run that returned, the task results under a host
\* are those of the host's events with a result payload, in order; each holds
\* the payload without the deny-listed keys, every other key with its value,
\* and the payload's changed flag
C20_ResultDataStripped ==
    rpc = "returned" =>
        /\ DOMAIN event_data = {h \in {"h1", "h2"} : PayloadEvents(h) # <<>>}
        /\ \A h \in DOMAIN event_data :
            /\ Len(event_data[h]) = Len(PayloadEvents(h))
            /\ \A i \in 1..Len(event_data[h]) :
                LET res == PayloadEvents(h)[i].data.event_data.res
                    task_result == event_data[h][i]
                IN  /\ task_result.hostname = h
                    /\ DOMAIN task_result.result_data = (DOMAIN res) \ DenyList
                    /\ \A key \in DOMAIN task_result.result_data :
                            task_result.result_data[key] = res[key]
                    /\ task_result.changed = res.changed

\* C20 witness: a report with two task results under h1, of payloads that
\* held deny-listed keys, and one under h2 with the changed flag set
C20_Witness ==
    /\ rpc = "returned"
    /\ stdout = <<OkEvent1, OkEvent3, OkEvent2>>
    /\ Len(event_data["h1"]) = 2
    /\ event_data["h1"][1].result_data = [msg |-> "fine"]
    /\ event_data["h1"][2].result_data = [stdout |-> "out"]
    /\ event_data["h2"][1].changed

----------------------------------------------------------------------------
(* Properties of the module runs of deploy_homelab (Spec) *)

IsPrefix(s, t) == Len(s) <= Len(t) /\ s = SubSeq(t, 1, Len(s))

\* C11: the modules whose engine run was started are a prefix of the
\* deployment order, each once; a run is started only when every run started
\* before it has returned; and once a run has raised, the module it was
\* started for stays the last one started
C11_InvokedIsPrefixOfOrder ==
    /\ invoked # <<>> => IsPrefix(invoked, deployment_order)
    /\ IsDistinct(invoked)
    /\ IsPrefix(returned, invoked)
    /\ Len(returned) >= Len(invoked) - 1
    /\ Len(returned) < Len(invoked) => pc \in {"ansible_runner.run", "failed"}
    /\ error # NoError => pc = "failed"
    /\ (error # NoError /\ invoked # <<>>) => Len(returned) = Len(invoked) - 1

\* C11 witness: the second of three modules raised the execution error
C11_Witness ==
    /\ Len(deployment_order) = 3
    /\ Len(invoked) = 2
    /\ returned = <<deployment_order[1]>>
    /\ pc = "failed"
    /\ error.kind = "AnsibleRunTimeExecution"

----------------------------------------------------------------------------
(* Properties of the plan that deploy_homelab runs (Spec) *)

Count(x, s) == Cardinality({i \in 1..Len(s) : s[i] = x})
Ordered == order_calls >= 1
PlannedOrder == get_deployment_order(dependency_graph)
AbsentFromOrder(m) == ~InSeq(m, PlannedOrder)

\* the specs that order_desired_modules is given are those of the expanded
\* selection, in its order
SpecsFollowNames ==
    pc = "order_desired_modules" => desired_modules = desired_module_names

\* C23: order_desired_modules keeps every spec of its input; the specs of
\* modules that are nodes of the graph come first, in deployment order, and
\* the specs of modules absent from the graph come after all of them, in the
\* relative order the input had them
C23_AbsentModulesAfterKnownInInputOrder ==
    Ordered =>
        /\ \A m \in Names : Count(m, desired_modules) = Count(m, desired_module_names)
        /\ Len(desired_modules) = Len(desired_module_names)
        /\ \A i, j \in 1..Len(desired_modules) :
                (i < j /\ ~AbsentFromOrder(desired_modules[j])) =>
                    /\ ~AbsentFromOrder(desired_modules[i])
                    /\ IndexOf(desired_modules[i], PlannedOrder)
                            <= IndexOf(desired_modules[j], PlannedOrder)
        /\ SelectSeq(desired_modules, AbsentFromOrder)
                = SelectSeq(desired_module_names, AbsentFromOrder)

\* C23 witness: the input had a module absent from the graph before the nodes
\* of the graph, and the sort has moved it behind them
C23_Witness ==
    /\ Ordered
    /\ Len(desired_module_names) = 3
    /\ AbsentFromOrder(desired_module_names[1])
    /\ Len(PlannedOrder) = 2
    /\ desired_modules[3] = desired_module_names[1]

\* two modules absent from the graph keep the order of the selection
TwoAbsentKeepInputOrder ==
    (/\ Ordered
     /\ Len(desired_module_names) = 2
     /\ desired_module_names[1] # desired_module_names[2]
     /\ \A i \in 1..2 : AbsentFromOrder(desired_module_names[i]))
        => desired_modules = desired_module_names

LinkingDone ==
    \/ pc \in {"gather_configuration_variables", "execute_ansible_playbooks",
               "ansible_runner.run", "done"}
    \/ invoked # <<>>
Exposes(m, role) == InSeq(role, ModuleRoles[m])
ExposedRoles == {role \in UNION {Range(ModuleRoles[m]) : m \in Names} :
                    \E i \in 1..Len(desired_modules) : Exposes(desired_modules[i], role)}
FirstExposing(role) ==
    desired_modules[CHOOSE i \in 1..Len(desired_modules) :
                        /\ Exposes(desired_modules[i], role)
                        /\ \A j \in 1..(i - 1) : ~Exposes(desired_modules[j], role)]

C27_EverySelectedModuleDeployed ==
    /\ deployment_order # NotComputed =>
            Range(desired_module_names) \subseteq Range(deployment_order)
    /\ pc = "done" =>
            /\ Range(desired_module_names) \subseteq Range(returned)
            /\ IsDistinct(returned)

\* what the deployment order holds instead: the nodes of the graph, which are
\* the modules that declare a dependency or are declared as one; a selected
\* module with the sentinel declaration that no module of the plan depends on
\* is not among them and is never run
DeploymentOrderIsGraphNodes ==
    /\ deployment_order # NotComputed =>
            /\ Range(deployment_order) = Range(dependency_graph.nodes)
            /\ \A m \in Range(desired_module_names) :
                    m \in Range(deployment_order) <=>
                        \/ ~IsSentinel(all_modules[m])
                        \/ \E n \in Range(desired_module_names) :
                                ~IsSentinel(all_modules[n]) /\ InSeq(m, all_modules[n])
    /\ pc = "done" => returned = deployment_order

----------------------------------------------------------------------------
(* Properties of configuration.yaml (SpecConfig) *)

\* planning (load_desired_modules) raises nothing for the selection
PlanningSucceeds == load_desired_modules(all_modules, module_choices).raised = "none"

ValidateCalled == last.op = "validate" /\ last.yaml # NoFile /\ PlanningSucceeds

\* the declarations of a block's module that have the entry's name
DeclaredAs(block, entry) ==
    {k \in 1..Len(RequiredVariables[block.Name]) :
        <<RequiredVariables[block.Name][k].name>> = entry.Name}
Undeclared(block, entry) == DeclaredAs(block, entry) = {}
WrongType(block, entry) ==
    \E k \in DeclaredAs(block, entry) :
        ~isinstance(entry.Value, RequiredVariables[block.Name][k].type)
Violates(block, entry) == Undeclared(block, entry) \/ WrongType(block, entry)

Entries(doc) ==
    {<<i, j>> \in (1..Len(doc.Modules)) \X (1..2) :
        j <= Len(doc.Modules[i].Required_Variables)}
EntryAt(doc, at) == doc.Modules[at[1]].Required_Variables[at[2]]
Violations(doc) == {at \in Entries(doc) : Violates(doc.Modules[at[1]], EntryAt(doc, at))}

\* the entry at a place of the new document is the old one with something
\* appended to its name
Annotated(old, new, at) ==
    /\ at \in Entries(new)
    /\ Len(EntryAt(new, at).Name) > Len(EntryAt(old, at).Name)

\* C12: validate of a document never raises because of a bad entry: it
\* returns False exactly when some entry has an undeclared name or a value of
\* the wrong type, with every such entry annotated, every other entry as it
\* was, and the annotated document saved
C12_ValidateAccumulatesViolations ==
    ValidateCalled =>
        /\ last.result \in {"True", "False"}
        /\ last.result = "False" <=> Violations(last.yaml) # {}
        /\ Entries(configuration_yaml) = Entries(last.yaml)
        /\ \A at \in Entries(last.yaml) :
                IF at \in Violations(last.yaml)
                THEN Annotated(last.yaml, configuration_yaml, at)
                ELSE EntryAt(configuration_yaml, at) = EntryAt(last.yaml, at)
        /\ configuration = configuration_yaml

\* what the code does instead: validate never returns False and never writes
\* the file; what it raises on a document is KeyError or IndexError, and it
\* raises whenever an entry has an undeclared name
ValidateNeverReturnsFalse ==
    last.op = "validate" =>
        /\ last.result # "False"
        /\ configuration_yaml = last.yaml
        /\ (ValidateCalled /\ last.result = "raised") =>
                error.kind \in {"KeyError", "IndexError"}
        /\ (ValidateCalled /\ \E at \in Entries(last.yaml) :
                Undeclared(last.yaml.Modules[at[1]], EntryAt(last.yaml, at))) =>
                last.result = "raised"

\* C13: an entry whose name its module does not declare gets a suffix
\* appended to its stored name, keeps its value, and validate returns False
\* without raising
C13_UndeclaredNameAnnotated ==
    ValidateCalled =>
        \A at \in Entries(last.yaml) :
            Undeclared(last.yaml.Modules[at[1]], EntryAt(last.yaml, at)) =>
                /\ last.result = "False"
                /\ Annotated(last.yaml, configuration_yaml, at)
                /\ SubSeq(EntryAt(configuration_yaml, at).Name, 1,
                          Len(EntryAt(last.yaml, at).Name)) = EntryAt(last.yaml, at).Name
                /\ EntryAt(configuration_yaml, at).Value = EntryAt(last.yaml, at).Value

\* the entries of a variable declared int that hold a string
StringForInteger(doc) ==
    {at \in Entries(doc) :
        /\ EntryAt(doc, at).Value.type = "str"
        /\ \E k \in DeclaredAs(doc.Modules[at[1]], EntryAt(doc, at)) :
                RequiredVariables[doc.Modules[at[1]].Name][k].type = "int"}

\* C14: a string given for a variable declared int makes validate return
\* False, annotates the stored entry and saves the annotated document
C14_StringForIntegerAnnotated ==
    (ValidateCalled /\ StringForInteger(last.yaml) # {}) =>
        /\ last.result = "False"
        /\ \A at \in StringForInteger(last.yaml) :
                /\ at \in Entries(configuration_yaml)
                /\ EntryAt(configuration_yaml, at) # EntryAt(last.yaml, at)
        /\ configuration_yaml # last.yaml
        /\ configuration_yaml = configuration

\* C15: a validate call that returned True left the file as it was and the
\* configuration in memory equal to it, and a validate call made now returns
\* True and changes neither
C15_ValidateIdempotentOnValid ==
    (last.op = "validate" /\ last.result = "True") =>
        /\ configuration_yaml = last.yaml
        /\ configuration = configuration_yaml
        /\ LET again == validate_configuration_file(configuration_yaml, configuration,
                                                    all_modules, module_choices)
           IN  /\ again.raised = {NoError}
               /\ again.valid
               /\ again.yaml = configuration_yaml
               /\ again.configuration = configuration

\* C15 witness: validate returned True for a document the user had edited
C15_Witness ==
    /\ last.op = "validate"
    /\ last.result = "True"
    /\ edits >= 1
    /\ last.previous.op = "edit"
    /\ Entries(configuration_yaml) # {}

\* validate was called right after a build_configuration_file call that
\* started from the empty document and returned
ValidatedFreshBuild == last.op = "validate" /\ last.previous.fresh

\* the defaults of a module's variables have the types declared for them
DefaultsWellTyped(m) ==
    \A k \in 1..Len(RequiredVariables[m]) :
        /\ RequiredVariables[m][k].type \in type_mappings
        /\ isinstance(RequiredVariables[m][k].default, RequiredVariables[m][k].type)

\* C16 as claimed: whatever the selection, validate right after a build from
\* the empty document returns True
C16_FreshBuildValidates ==
    ValidatedFreshBuild => last.result = "True"

\* C16 amended: it returns True when the default of every variable of every
\* module of the expanded selection has the declared type, and raises KeyError
\* when one has not
C16_FreshBuildValidatesWellTypedDefaults ==
    ValidatedFreshBuild =>
        IF \A i \in 1..Len(desired_modules) : DefaultsWellTyped(desired_modules[i])
        THEN last.result = "True" /\ configuration_yaml = last.yaml
        ELSE last.result = "raised" /\ error = [kind |-> "KeyError", key |-> "type"]

\* C16 witness: validate returned True for the fresh document of two modules
C16_Witness ==
    /\ ValidatedFreshBuild
    /\ last.result = "True"
    /\ Len(configuration_yaml.Modules) = 2
    /\ Len(desired_module_names) > Len(get_desired_modules(module_choices))

BuildReturnedOnExisting ==
    last.op = "build" /\ last.result = "returned" /\ last.yaml # NoFile

\* the blocks build appends to old for the modules, in order: the default
\* block of each module that has none yet
RECURSIVE Merged(_, _)
Merged(old, modules) ==
    IF modules = <<>> THEN old
    ELSE Merged(IF \E i \in 1..Len(old) : old[i].Name = Head(modules) THEN old
                ELSE Append(old, configuration_block(Head(modules))),
                Tail(modules))

\* C17: with a document in place, build with either refresh flag leaves every
\* block of it as it was, appends a default block for each selected module
\* that had none, and a second build gives the same document
C17_BuildKeepsExistingBlocks ==
    BuildReturnedOnExisting =>
        /\ configuration_yaml.Modules = Merged(last.yaml.Modules, desired_modules)
        /\ \A refresh \in BOOLEAN :
                build_configuration_file(refresh, configuration_yaml, configuration,
                                         all_modules, module_choices).yaml
                    = configuration_yaml

\* what the code does: that holds of a build with the refresh flag set; a
\* build without it writes the default blocks of the selection and nothing
\* else
BuildKeepsExistingBlocksOnRefresh ==
    BuildReturnedOnExisting =>
        IF last.refresh
        THEN configuration_yaml.Modules = Merged(last.yaml.Modules, desired_modules)
        ELSE configuration_yaml.Modules = Merged(<<>>, desired_modules)

\* the entries of a block of the default document with some of them removed
\* and the rest in any order
IsRearranged(block, default) ==
    /\ block.Name = default.Name
    /\ IsDistinct(block.Required_Variables)
    /\ Range(block.Required_Variables) \subseteq Range(default.Required_Variables)
RearrangedDefaults(doc) ==
    /\ doc # NoFile
    /\ \A i \in 1..Len(doc.Modules) :
            IsRearranged(doc.Modules[i], configuration_block(doc.Modules[i].Name))
    /\ \E i \in 1..Len(doc.Modules) :
            doc.Modules[i] # configuration_block(doc.Modules[i].Name)

\* C26: validate checks an entry against the declaration of the entry's name
\* wherever the entry stands in its block: a document whose entries all have
\* a declared name and a value of the type declared for that name is
\* validated as correct, without an exception
C26_ValidatesByNameNotPosition ==
    (ValidateCalled /\ Violations(last.yaml) = {}) => last.result = "True"

\* what validate does with the entries of a well-typed default document after
\* some were removed or reordered: each is checked against the declaration
\* at its position
RearrangedDefaultsChecked ==
    (/\ ValidateCalled
     /\ RearrangedDefaults(last.yaml)
     /\ \A i \in 1..Len(last.yaml.Modules) : DefaultsWellTyped(last.yaml.Modules[i].Name))
        => \/ last.result = "True"
           \/ last.result = "raised" /\ error.kind = "KeyError"

\* C29: configuration.yaml never holds two blocks of the same module name
C29_OneBlockPerModule ==
    configuration_yaml # NoFile =>
        \A i, j \in 1..Len(configuration_yaml.Modules) :
            configuration_yaml.Modules[i].Name = configuration_yaml.Modules[j].Name => i = j

\* C29 witness: a second build, on the document of the first, returned for a
\* selection that lists one module twice
C29_Witness ==
    /\ last.op = "build"
    /\ last.result = "returned"
    /\ last.yaml # NoFile
    /\ Len(module_choices) = 2
    /\ module_choices[1] = module_choices[2]
    /\ Len(configuration_yaml.Modules) >= 1

\* C29 witness of the other case: the module selected second is also pulled
\* in as the dependency of the first, and has one block
SelectedAndPulledInHasOneBlock ==
    (/\ last.op = "build"
     /\ last.result = "returned"
     /\ module_choices = <<"A", "B">>
     /\ all_modules["A"] = <<"B">>)
        => Cardinality({i \in 1..Len(configuration_yaml.Modules) :
                            configuration_yaml.Modules[i].Name = "B"}) = 1

----------------------------------------------------------------------------
(* Properties of the inventory (SpecInventory) *)

InventoryChosen == inventory # NoInventory

\* C25: the inventory chosen for a playbook, one without plays included, is
\* the dummy inventory exactly when every play's hosts is "localhost", and
\* the terraform inventory otherwise
C25_NullInventoryIffAllLocalhost ==
    InventoryChosen =>
        /\ inventory = DevNull <=>
                \A k \in 1..Len(playbook) : playbook[k].hosts = "localhost"
        /\ inventory \in {DevNull, terraform_inventory}

\* C25 witness: the terraform inventory for a playbook whose last play is on
\* localhost and whose first is not
C25_Witness ==
    /\ inventory = terraform_inventory
    /\ Len(playbook) >= 2
    /\ playbook[1].hosts # "localhost"
    /\ playbook[Len(playbook)].hosts = "localhost"

----------------------------------------------------------------------------
(* Properties of the guided flow (SpecMain) *)

LastLogged == main_log[Len(main_log)]
ValidateModulesEnded ==
    /\ main_log # <<>>
    /\ LastLogged.call = "validate_modules"
    /\ \/ pc \in {"configuration", "vim module_choices.yaml"}
       \/ pc = "failed" /\ LastLogged.result = "raised"
InCatalog(entry) == entry = "" \/ entry \in DOMAIN all_modules
AllInCatalog(wanted) == \A i \in 1..Len(wanted) : InCatalog(wanted[i])
AnnotatedInvalid(wanted) ==
    [i \in 1..Len(wanted) |->
        IF InCatalog(wanted[i]) THEN wanted[i] ELSE wanted[i] \o " <--- invalid"]

\* C21: validate_modules on a selection with a name that is not in the catalog
\* returns False, raises nothing and leaves the selection file with that entry
\* annotated and the others as they were; on a selection of catalog names it
\* returns True and leaves the file as it was
C21_InvalidNameAnnotatedAndFalse ==
    ValidateModulesEnded =>
        IF AllInCatalog(LastLogged.wanted)
        THEN LastLogged.result = "True" /\ module_choices = LastLogged.wanted
        ELSE /\ LastLogged.result = "False"
             /\ module_choices = AnnotatedInvalid(LastLogged.wanted)

\* what validate_modules does: on a name that is not in the catalog it raises
\* TypeError and the file stays as it was; it never returns False
InvalidNameRaisesTypeError ==
    /\ ValidateModulesEnded =>
            /\ module_choices = LastLogged.wanted
            /\ IF AllInCatalog(LastLogged.wanted)
               THEN LastLogged.result = "True" /\ pc = "configuration"
               ELSE /\ LastLogged.result = "raised"
                    /\ error.kind = "TypeError"
                    /\ pc = "failed"
    /\ \A k \in 1..Len(main_log) : main_log[k].result # "False"

MissingDependencies ==
    {n \in Range(dependency_graph.nodes) : n \notin DOMAIN all_modules}
LookupErrors == {"NotFound", "ModuleNotFound", "LookupError", "KeyError"}

\* C22: when the resolution of the selection has met a dependency on a name
\* that is not in the catalog, the lookup of that name gave an error and not
\* None, and the resolution failed with that lookup error
C22_MissingDependencyIsLookupError ==
    MissingDependencies # {} =>
        /\ \A n \in MissingDependencies : get_module_spec(all_modules, n) # PyNone
        /\ pc = "failed"
        /\ error.kind \in LookupErrors

\* what the resolution does: the lookup gives None, None is appended to
\* desired_modules and its subscript raises TypeError
MissingDependencyRaisesTypeError ==
    MissingDependencies # {} =>
        /\ \A n \in MissingDependencies : get_module_spec(all_modules, n) = PyNone
        /\ InSeq(PyNone, desired_modules)
        /\ pc = "failed"
        /\ error.kind = "TypeError"
        /\ invoked = <<>>

DeployReached ==
    \/ pc \in DeployPositions
    \/ invoked # <<>>
    \/ deployment_order # NotComputed
ReturnedTrue(k, call) == main_log[k].call = call /\ main_log[k].result = "True"

\* C28: main reaches deploy_homelab only when the last validate_modules call
\* returned True and the validate_configuration_file call after it, the last
\* call main made, returned True, and no call raised; after a call that
\* returned False main is in that call's edit-and-validate loop and after one
\* that raised it has ended, in both cases with no module run
C28_DeployOnlyAfterBothValidationsTrue ==
    /\ DeployReached =>
            /\ Len(main_log) >= 2
            /\ ReturnedTrue(Len(main_log), "validate_configuration_file")
            /\ \E i \in 1..(Len(main_log) - 1) :
                    /\ ReturnedTrue(i, "validate_modules")
                    /\ \A k \in (i + 1)..Len(main_log) :
                            main_log[k].call = "validate_configuration_file"
            /\ \A k \in 1..Len(main_log) : main_log[k].result # "raised"
    /\ (main_log # <<>> /\ LastLogged.result = "False") =>
            /\ invoked = <<>>
            /\ pc \in {"vim module_choices.yaml", "validate_modules",
                       "vim configuration.yaml", "validate_configuration_file"}
    /\ (main_log # <<>> /\ LastLogged.result = "raised") =>
            invoked = <<>> /\ pc = "failed"

\* C28 witness: both validations returned True and deploy_homelab has run two
\* modules
C28_Witness ==
    /\ pc = "done"
    /\ Len(returned) = 2
    /\ Len(main_log) = 2
    /\ ReturnedTrue(1, "validate_modules")
    /\ ReturnedTrue(2, "validate_configuration_file")

====
